---- MODULE Spec2Model ----
(***************************************************************************)
(* Couple Compass backend: the real-time chat core.                        *)
(*                                                                         *)
(*   - ConnectionManager (routers/chat.py 28-66): the in-process registry  *)
(*     of live websockets, a dict user_id -> list of websockets, and its   *)
(*     two delivery loops, which suspend at every send_text.               *)
(*   - websocket_endpoint (routers/chat.py 606-650): one handler per       *)
(*     websocket.                                                          *)
(*   - the invitation endpoints (routers/chat.py 318-545).                 *)
(*   - ChatService.send_message (services/chat_service.py 52-166) and      *)
(*     AIService (services/ai_service.py).                                 *)
(*                                                                         *)
(* Python objects are modelled with their identity: the lists held by the  *)
(* dict live in a heap (lists), the dict is its insertion-ordered entry    *)
(* table (entries) plus the value of each present key (listOf), and a      *)
(* delivery loop holds the iterator state CPython holds.                   *)
(***************************************************************************)
EXTENDS Integers, Sequences, FiniteSets, TLC

----------------------------------------------------------------------------
(* Bounds *)
MaxUser == 2        \* user ids 1..MaxUser exist; the websocket path also admits 0
MaxConn == 2        \* websocket objects created over a run
NProcs == 2         \* request handlers in flight at once
MaxEntries == 4     \* entry-table slots used while a dict iterator is live
MaxSessions == 2    \* chat_sessions rows created over a run
MaxInvitations == 2 \* chat_invitations rows created over a run
MaxMessages == 4    \* chat_messages rows created over a run
TickHours == 24     \* the clock advances in steps of this many hours
MaxTime == 48       \* the clock stops here
ReplyTokens == 7    \* total_tokens the backend reports for a completion

Users == 1..MaxUser
WsUsers == 0..MaxUser
Conns == 1..MaxConn
HProcs == (MaxConn + 1)..(MaxConn + NProcs)
Tasks == Conns \cup HProcs
ListIds == 1..(MaxUser + 1 + MaxConn + NProcs)

NoList == 0         \* key absent from the dict
NoConn == 0
NoUser == -1        \* Python None, where a user id is expected
Tomb == -2          \* deleted slot of the dict's entry table
NoTime == -1        \* NULL timestamp
NoId == 0           \* NULL row id
NoTokens == -1      \* NULL tokens_used

\* timedelta(hours=24) of invite_partner_to_session
InvitationTTL == 24

VARIABLES
    entries,        \* active_connections: keys in insertion order, Tomb for a deleted slot
    listOf,         \* active_connections[u]: the list object, NoList when u is not a key
    lists,          \* heap of list objects: ListIds -> sequence of websockets
    sock,           \* transport of each websocket: "open" or "gone"
    ep,             \* position of each websocket's endpoint handler
    epUser,         \* user_id path parameter of each websocket's handler
    epEnd,          \* why the handler ended
    deliv,          \* per task, the delivery loop it is suspended in
    h,              \* per request handler: operation, notifications left, response
    now,            \* datetime.utcnow(), in hours
    sessions,       \* table chat_sessions; the row id is the index
    invitations,    \* table chat_invitations; the row id is the index
    messages,       \* table chat_messages; the row id is the index
    chunks,         \* vectors of the similarity index
    provider,       \* settings.default_llm_provider
    moods           \* table mood_checkins; the row id is the index

dbVars == <<now, sessions, invitations, messages, chunks, provider, moods>>

----------------------------------------------------------------------------
(* Python list and dict primitives *)

InSeq(s, x) == \E i \in 1..Len(s) : s[i] = x

IndexOf(s, x) == CHOOSE i \in 1..Len(s) : s[i] = x /\ \A j \in 1..(i - 1) : s[j] # x

RemoveAt(s, i) == SubSeq(s, 1, i - 1) \o SubSeq(s, i + 1, Len(s))

\* list.remove(x): drops the first occurrence (the caller checks x is present)
ListRemove(s, x) == RemoveAt(s, IndexOf(s, x))

Count(s, x) == Cardinality({i \in 1..Len(s) : s[i] = x})

SeqSet(s) == {s[i] : i \in 1..Len(s)}

\* `user_id in self.active_connections`
HasKey(u) == listOf[u] # NoList

\* len(self.active_connections)
DictLen == Cardinality({u \in WsUsers : HasKey(u)})

\* the websockets registered for u, in list order
ConnsOf(u) == IF HasKey(u) THEN lists[listOf[u]] ELSE <<>>

Registered(c) == \E u \in WsUsers : InSeq(ConnsOf(u), c)

\* `if sender_user_id and ...`: None and 0 are falsy
Truthy(u) == u # NoUser /\ u # 0

----------------------------------------------------------------------------
(* ConnectionManager.connect / disconnect on the registry *)

Min(S) == CHOOSE x \in S : \A y \in S : x <= y

\* a list object nothing refers to: not a value of the dict, not held by a loop
FreeList(dv) ==
    Min({l \in ListIds : /\ \A u \in WsUsers : listOf[u] # l
                         /\ \A t \in Tasks : dv[t].L # l})

\* a dict iterator is live while a broadcast is suspended inside its loop
LiveIter(dv) == \E t \in Tasks : dv[t].kind = "broadcast" /\ dv[t].pc = "sending"

\* Deleted slots of the entry table are visible to a live dict iterator only:
\* they are dropped as soon as none is live.
Norm(e, dv) == IF LiveIter(dv) THEN e ELSE SelectSeq(e, LAMBDA k : k # Tomb)

\* connect, after accept(): lines 34-36
ConnListOf(u, dv) == IF HasKey(u) THEN listOf ELSE [listOf EXCEPT ![u] = FreeList(dv)]

ConnEntries(u) == IF HasKey(u) THEN entries ELSE Append(entries, u)

ConnLists(c, u, dv) ==
    LET l == ConnListOf(u, dv)[u] IN [lists EXCEPT ![l] = Append(@, c)]

\* (mutant) disconnect that leaves the list as it is
DiscLists_Keeps(ls, c, u) == ls

\* (mutant) disconnect that takes the last connection out when c is not there
DiscLists_PopsLast(ls, c, u) ==
    IF ~HasKey(u) THEN ls
    ELSE IF InSeq(ls[listOf[u]], c) THEN [ls EXCEPT ![listOf[u]] = ListRemove(@, c)]
    ELSE [ls EXCEPT ![listOf[u]] = SubSeq(@, 1, Len(@) - 1)]

\* disconnect: lines 40-44, on the heap ls
DiscLists(ls, c, u) ==
    IF HasKey(u) /\ InSeq(ls[listOf[u]], c)
    THEN [ls EXCEPT ![listOf[u]] = ListRemove(@, c)]
    ELSE ls

DiscDrops(ls, c, u) == HasKey(u) /\ DiscLists(ls, c, u)[listOf[u]] = <<>>

DiscListOf(ls, c, u) ==
    IF DiscDrops(ls, c, u) THEN [listOf EXCEPT ![u] = NoList] ELSE listOf

DiscEntries(ls, c, u) ==
    IF DiscDrops(ls, c, u)
    THEN [i \in 1..Len(entries) |-> IF entries[i] = u THEN Tomb ELSE entries[i]]
    ELSE entries

----------------------------------------------------------------------------
(* The delivery loops: send_personal_message and broadcast_to_session.     *)
(* A loop is suspended in `await connection.send_text(message)`; one step  *)
(* runs from the outcome of that send to the next send or to the end.      *)

IdleDeliv ==
    [kind |-> "none", pc |-> "idle", user |-> NoUser, excl |-> NoUser,
     L |-> NoList, idx |-> 0, cur |-> NoConn,
     dpos |-> 0, dused |-> 0, dlen |-> 0,
     got |-> <<>>, err |-> "none"]

\* the loop has ended: only what it delivered, and how it ended, remain
Finished(d) == [IdleDeliv EXCEPT !.pc = "done", !.got = d.got]

Raised(d, e) == [IdleDeliv EXCEPT !.pc = "raised", !.got = d.got, !.err = e]

\* next() of the dict items iterator, then the inner `for` up to its first send
RECURSIVE BcastScan(_, _, _, _)
BcastScan(ls, d, i, len) ==
    LET js == {j \in (i + 1)..Len(entries) : entries[j] # Tomb} IN
    IF js = {} THEN Finished(d)
    ELSE IF len = 0 THEN Raised(d, "RuntimeError")
    ELSE LET j == Min(js)
             u == entries[j]
         IN IF (Truthy(d.excl) /\ u = d.excl) \/ Len(ls[listOf[u]]) = 0
            THEN BcastScan(ls, d, j, len - 1)
            ELSE [d EXCEPT !.pc = "sending", !.user = u, !.L = listOf[u],
                           !.idx = 1, !.cur = ls[listOf[u]][1],
                           !.dpos = j, !.dlen = len - 1]

BcastResume(ls, d) ==
    IF d.dused # DictLen THEN Raised(d, "RuntimeError")
    ELSE BcastScan(ls, d, d.dpos, d.dlen)

\* next() of the list iterator: the element at its index, if there is one
ListNext(ls, d) ==
    IF d.idx < Len(ls[d.L])
    THEN [d EXCEPT !.pc = "sending", !.cur = ls[d.L][d.idx + 1], !.idx = d.idx + 1]
    ELSE IF d.kind = "personal" THEN Finished(d) ELSE BcastResume(ls, d)

\* send_personal_message(message, u) up to its first send
BeginPersonal(ls, u) ==
    LET d == [IdleDeliv EXCEPT !.kind = "personal", !.user = u]
    IN IF HasKey(u) THEN ListNext(ls, [d EXCEPT !.L = listOf[u]]) ELSE Finished(d)

\* broadcast_to_session(message, session_id, excl) up to its first send
BeginBroadcast(ls, excl) ==
    LET d == [IdleDeliv EXCEPT !.kind = "broadcast", !.excl = excl,
                  !.dused = DictLen, !.dlen = DictLen]
    IN BcastScan(ls, d, 0, DictLen)

\* a send succeeds on a websocket whose peer is there and whose handler runs
\* (the transport is closed when the handler returns)
SendOk(c) == sock[c] = "open"

\* the `except:` clause of either loop: does the removal raise?
RemoveErr(d) ==
    IF d.kind = "personal"
    THEN IF ~HasKey(d.user) THEN "KeyError"
         ELSE IF ~InSeq(lists[listOf[d.user]], d.cur) THEN "ValueError" ELSE "none"
    ELSE IF ~InSeq(lists[d.L], d.cur) THEN "ValueError" ELSE "none"

RemoveTarget(d) == IF d.kind = "personal" THEN listOf[d.user] ELSE d.L

\* the heap after the send to d.cur returned or raised
AfterSendLists(d) ==
    IF SendOk(d.cur) \/ RemoveErr(d) # "none" THEN lists
    ELSE [lists EXCEPT ![RemoveTarget(d)] = ListRemove(@, d.cur)]

\* the loop after the send to d.cur returned or raised
AfterSend(d) ==
    IF SendOk(d.cur) THEN ListNext(lists, [d EXCEPT !.got = Append(@, d.cur)])
    ELSE IF RemoveErr(d) # "none"
         THEN Raised(d, RemoveErr(d))
         ELSE ListNext(AfterSendLists(d), d)

----------------------------------------------------------------------------
(* Request handlers: after its database work a handler runs the            *)
(* notifications it owes, one delivery loop after the other.               *)

IdleH == [op |-> "idle", who |-> NoUser, arg |-> NoId, jobs |-> <<>>, log |-> <<>>,
          resp |-> 0, out |-> NoId, rows |-> <<>>, detail |-> "", sug |-> <<>>,
          ctx |-> {}, turns |-> <<>>]

PersonalJob(u) == [kind |-> "personal", arg |-> u]
BroadcastJob(excl) == [kind |-> "broadcast", arg |-> excl]

BeginJob(ls, j) ==
    IF j.kind = "personal" THEN BeginPersonal(ls, j.arg) ELSE BeginBroadcast(ls, j.arg)

\* run the notifications in order until one suspends in a send
RECURSIVE RunJobs(_, _, _)
RunJobs(ls, jobs, log) ==
    IF jobs = <<>> THEN [d |-> IdleDeliv, jobs |-> <<>>, log |-> log]
    ELSE LET d == BeginJob(ls, Head(jobs)) IN
         IF d.pc = "sending" THEN [d |-> d, jobs |-> Tail(jobs), log |-> log]
         ELSE RunJobs(ls, Tail(jobs), Append(log, d.got))

SlotFree(p) == h[p].op = "idle" \/ h[p].resp # 0

\* an answered request is gone with the next step: its slot is free
Settled == [q \in HProcs |-> IF h[q].resp # 0 THEN IdleH ELSE h[q]]

Request(op, who, arg) == [IdleH EXCEPT !.op = op, !.who = who, !.arg = arg]

\* the request `req`, its database work done, owes the notifications `jobs`
\* and answers 200 when they are out
Notify(p, req, jobs) ==
    LET r == RunJobs(lists, jobs, <<>>) IN
    /\ deliv' = [deliv EXCEPT ![p] = IF r.d.pc = "sending" THEN r.d ELSE IdleDeliv]
    /\ h' = [Settled EXCEPT ![p] =
                [req EXCEPT !.jobs = r.jobs, !.log = r.log,
                            !.resp = IF r.d.pc = "sending" THEN 0 ELSE 200]]

\* the request `req` is answered at once with `code`
Answer(p, req, code) ==
    /\ deliv' = [deliv EXCEPT ![p] = IdleDeliv]
    /\ h' = [Settled EXCEPT ![p] = [req EXCEPT !.resp = code]]

----------------------------------------------------------------------------
(* websocket_endpoint *)

Frames == {"typing", "typing_bad", "ping", "other", "garbage"}

\* `finally: manager.disconnect(websocket, user_id)` on the heap ls
Teardown(c, ls, dv, why) ==
    /\ lists' = DiscLists(ls, c, epUser[c])
    /\ listOf' = DiscListOf(ls, c, epUser[c])
    /\ entries' = Norm(DiscEntries(ls, c, epUser[c]), dv)
    /\ ep' = [ep EXCEPT ![c] = "ended"]
    /\ epEnd' = [epEnd EXCEPT ![c] = why]
    /\ sock' = [sock EXCEPT ![c] = "gone"]
    /\ UNCHANGED epUser

\* a client opens /ws/{u}: the handler starts and suspends in websocket.accept()
WsOpen(c, u) ==
    /\ ep[c] = "none"
    /\ \A b \in Conns : b < c => ep[b] # "none"
    /\ ep' = [ep EXCEPT ![c] = "accepting"]
    /\ epUser' = [epUser EXCEPT ![c] = u]
    /\ UNCHANGED <<entries, listOf, lists, sock, epEnd, deliv>>
    /\ h' = Settled
    /\ UNCHANGED dbVars

\* the peer goes away
Break(c) ==
    /\ ep[c] \in {"accepting", "recv", "typing", "pong"}
    /\ sock[c] = "open"
    /\ sock' = [sock EXCEPT ![c] = "gone"]
    /\ UNCHANGED <<entries, listOf, lists, ep, epUser, epEnd, deliv>>
    /\ h' = Settled
    /\ UNCHANGED dbVars

\* manager.connect resumes from accept(): registered, or accept raised
WsAccept(c) ==
    /\ ep[c] = "accepting"
    /\ IF sock[c] = "open"
       THEN /\ HasKey(epUser[c]) \/ Len(entries) < MaxEntries
            /\ entries' = ConnEntries(epUser[c])
            /\ listOf' = ConnListOf(epUser[c], deliv)
            /\ lists' = ConnLists(c, epUser[c], deliv)
            /\ ep' = [ep EXCEPT ![c] = "recv"]
            /\ UNCHANGED <<epEnd, epUser, sock>>
       ELSE Teardown(c, lists, deliv, "accept_failed")
    /\ UNCHANGED deliv
    /\ h' = Settled
    /\ UNCHANGED dbVars

\* (mutant) a ping is not answered
AfterFrame_NoPong(f) == "recv"

\* where the handler goes with a frame that is neither typing nor malformed:
\* into `await websocket.send_text(pong)` on its own websocket for a ping,
\* back to receive_text for any other type
AfterFrame(f) == IF f = "ping" THEN "pong" ELSE "recv"

\* receive_text resumes: the peer is gone, or a frame arrived
WsRecv(c, f) ==
    /\ ep[c] = "recv"
    /\ IF sock[c] # "open"
       THEN /\ Teardown(c, lists, deliv, "disconnect")
            /\ UNCHANGED deliv
       ELSE IF f \in {"typing_bad", "garbage"}
       THEN /\ Teardown(c, lists, deliv, "error")
            /\ UNCHANGED deliv
       ELSE IF f = "typing"
       THEN LET d == BeginBroadcast(lists, epUser[c]) IN
            /\ deliv' = [deliv EXCEPT ![c] = IF d.pc = "sending" THEN d ELSE IdleDeliv]
            /\ ep' = [ep EXCEPT ![c] = IF d.pc = "sending" THEN "typing" ELSE "recv"]
            /\ UNCHANGED <<entries, listOf, lists, epEnd, epUser, sock>>
       ELSE /\ ep' = [ep EXCEPT ![c] = AfterFrame(f)]
            /\ UNCHANGED <<entries, listOf, lists, epEnd, epUser, sock, deliv>>
    /\ h' = Settled
    /\ UNCHANGED dbVars

\* the pong's send_text resumes
WsPong(c) ==
    /\ ep[c] = "pong"
    /\ IF SendOk(c)
       THEN /\ ep' = [ep EXCEPT ![c] = "recv"]
            /\ UNCHANGED <<entries, listOf, lists, epEnd, epUser, sock>>
       ELSE Teardown(c, lists, deliv, "error")
    /\ UNCHANGED deliv
    /\ h' = Settled
    /\ UNCHANGED dbVars

----------------------------------------------------------------------------
(* One step of a suspended delivery loop *)

\* the loop of a typing frame, run by the websocket's own handler
WsDeliver(c) ==
    LET d == AfterSend(deliv[c])
        ls == AfterSendLists(deliv[c])
        dv == [deliv EXCEPT ![c] = IF d.pc = "sending" THEN d ELSE IdleDeliv]
    IN /\ ep[c] = "typing"
       /\ deliv[c].pc = "sending"
       /\ deliv' = dv
       /\ IF d.pc = "raised" THEN Teardown(c, ls, dv, "error")
          ELSE /\ lists' = ls
               /\ entries' = Norm(entries, dv)
               /\ ep' = [ep EXCEPT ![c] = IF d.pc = "done" THEN "recv" ELSE "typing"]
               /\ UNCHANGED <<listOf, epEnd, epUser, sock>>
       /\ h' = Settled
       /\ UNCHANGED dbVars

\* the loop of a request handler: on its end the next notification starts, and
\* an exception leaves the handler through `except Exception` as a 500
HDeliver(p) ==
    LET d == AfterSend(deliv[p])
        ls == AfterSendLists(deliv[p])
        r == RunJobs(ls, h[p].jobs, Append(h[p].log, d.got))
        dn == IF d.pc = "sending" THEN d
              ELSE IF d.pc = "done" /\ r.d.pc = "sending" THEN r.d ELSE IdleDeliv
        dv == [deliv EXCEPT ![p] = dn]
    IN /\ deliv[p].pc = "sending"
       /\ deliv' = dv
       /\ lists' = ls
       /\ entries' = Norm(entries, dv)
       /\ h' = [Settled EXCEPT ![p] =
                  IF d.pc = "sending" THEN @
                  ELSE IF d.pc = "raised"
                       THEN [@ EXCEPT !.jobs = <<>>, !.log = Append(@, d.got), !.resp = 500]
                  ELSE [@ EXCEPT !.jobs = r.jobs, !.log = r.log,
                                 !.resp = IF r.d.pc = "sending" THEN 0 ELSE 200]]
       /\ UNCHANGED <<listOf, sock, ep, epUser, epEnd>>
       /\ UNCHANGED dbVars

\* some request handler calls manager.send_personal_message(message, u)
CallSendPersonal(p, u) ==
    /\ SlotFree(p)
    /\ Notify(p, Request("personal", NoUser, NoId), <<PersonalJob(u)>>)
    /\ UNCHANGED <<entries, listOf, lists, sock, ep, epUser, epEnd>>
    /\ UNCHANGED dbVars

\* some request handler calls manager.broadcast_to_session(message, sid, excl)
CallBroadcast(p, excl) ==
    /\ SlotFree(p)
    /\ Notify(p, Request("broadcast", NoUser, NoId), <<BroadcastJob(excl)>>)
    /\ UNCHANGED <<entries, listOf, lists, sock, ep, epUser, epEnd>>
    /\ UNCHANGED dbVars

----------------------------------------------------------------------------
InitReg ==
    /\ entries = <<>>
    /\ listOf = [u \in WsUsers |-> NoList]
    /\ lists = [l \in ListIds |-> <<>>]
    /\ sock = [c \in Conns |-> "open"]
    /\ ep = [c \in Conns |-> "none"]
    /\ epUser = [c \in Conns |-> NoUser]
    /\ epEnd = [c \in Conns |-> "none"]
    /\ deliv = [t \in Tasks |-> IdleDeliv]
    /\ h = [p \in HProcs |-> IdleH]

\* empty tables, the clock at its origin
InitStore ==
    /\ now = 0
    /\ sessions = <<>>
    /\ invitations = <<>>
    /\ messages = <<>>
    /\ chunks = {}
    /\ moods = <<>>

\* one request handler at a time calls into the registry
RegProcs == {MaxConn + 1}

NextReg ==
    \/ \E c \in Conns, u \in WsUsers : WsOpen(c, u)
    \/ \E c \in Conns : Break(c)
    \/ \E c \in Conns : WsAccept(c)
    \/ \E c \in Conns, f \in Frames : WsRecv(c, f)
    \/ \E c \in Conns : WsPong(c)
    \/ \E c \in Conns : WsDeliver(c)
    \/ \E p \in RegProcs : HDeliver(p)
    \/ \E p \in RegProcs, u \in Users : CallSendPersonal(p, u)
    \/ \E p \in RegProcs, x \in Users \cup {NoUser} : CallBroadcast(p, x)

vars == <<entries, listOf, lists, sock, ep, epUser, epEnd, deliv, h,
          now, sessions, invitations, messages, chunks, provider, moods>>

(* The server as configured by default: an empty registry, empty tables,   *)
(* and the OpenAI provider.                                                *)
Init == InitReg /\ InitStore /\ provider = "openai"

SpecReg == Init /\ [][NextReg]_vars

----------------------------------------------------------------------------
(* The ConnectionManager driven directly through its methods, with any     *)
(* websocket and any user id as arguments.                                 *)

\* await manager.connect(websocket, u), accept() having returned
ApiConnect(c, u) ==
    /\ Len(ConnsOf(u)) < MaxConn
    /\ \A t \in Tasks : deliv[t].pc # "sending"
    /\ entries' = ConnEntries(u)
    /\ listOf' = ConnListOf(u, deliv)
    /\ lists' = ConnLists(c, u, deliv)
    /\ UNCHANGED <<sock, ep, epUser, epEnd, deliv>>
    /\ h' = Settled
    /\ UNCHANGED dbVars

\* manager.disconnect(websocket, u)
ApiDisconnect(c, u) ==
    /\ \A t \in Tasks : deliv[t].pc # "sending"
    /\ lists' = DiscLists(lists, c, u)
    /\ listOf' = DiscListOf(lists, c, u)
    /\ entries' = Norm(DiscEntries(lists, c, u), deliv)
    /\ UNCHANGED <<sock, ep, epUser, epEnd, deliv>>
    /\ h' = Settled
    /\ UNCHANGED dbVars

NextApi ==
    \/ \E c \in Conns, u \in WsUsers : ApiConnect(c, u)
    \/ \E c \in Conns, u \in WsUsers : ApiDisconnect(c, u)
    \/ \E p \in RegProcs, u \in Users : CallSendPersonal(p, u)
    \/ \E p \in RegProcs : HDeliver(p)

SpecApi == Init /\ [][NextApi]_vars

----------------------------------------------------------------------------
(* The tables, and the requests that work on them.  A request handler runs   *)
(* on the event loop without suspending until its first send_text: its       *)
(* queries and its commit are one step.                                      *)

\* users.partner_id: users 1 and 2 are linked to each other, any other user
\* to nobody
PartnerId(u) == IF u = 1 THEN 2 ELSE IF u = 2 THEN 1 ELSE NoUser

SessionIds == 1..MaxSessions
InvitationIds == 1..MaxInvitations

\* a request takes the first handler slot that is free
Slot(p) == SlotFree(p) /\ \A q \in HProcs : q < p => ~SlotFree(q)

\* the place of a row that db.delete took out of chat_sessions: ids are not
\* given twice
NoSession == [user_id |-> NoUser, partner_user_id |-> NoUser, session_type |-> "",
              last_activity |-> NoTime, title |-> <<>>]

\* filter(ChatSession.id == sid).first() finds a row
Exists(sid) == sid <= Len(sessions) /\ sessions[sid] # NoSession

\* (mutant) the filter does not look at the caller
OwnsSession_Anyone(u, sid) == sid <= Len(sessions) /\ sessions[sid] # NoSession

\* filter(ChatSession.id == sid, ChatSession.user_id == u).first() finds a row
OwnsSession(u, sid) == sid <= Len(sessions) /\ sessions[sid].user_id = u

\* ChatSessionBase.title when the request names none
DefaultTitle == <<"N", "e", "w">>

\* ChatService.create_chat_session
NewSession(u, partner, type) ==
    [user_id |-> u, partner_user_id |-> partner, session_type |-> type,
     last_activity |-> now, title |-> DefaultTitle]

\* onupdate=func.now() of ChatSession.last_activity: an UPDATE of the row
\* that does not set the column stamps it
OnUpdate(old, new) == IF new = old THEN old ELSE [new EXCEPT !.last_activity = now]

\* POST /sessions
CreateSession(p, u, partner, type) ==
    /\ Slot(p)
    /\ Len(sessions) < MaxSessions
    /\ sessions' = Append(sessions, NewSession(u, partner, type))
    /\ Answer(p, [Request("create", u, NoId) EXCEPT !.out = Len(sessions) + 1], 200)
    /\ UNCHANGED <<entries, listOf, lists, sock, ep, epUser, epEnd>>
    /\ UNCHANGED <<now, invitations, messages, chunks, provider, moods>>

\* the clock advances
Tick ==
    /\ now + TickHours <= MaxTime
    /\ now' = now + TickHours
    /\ UNCHANGED <<entries, listOf, lists, sock, ep, epUser, epEnd, deliv>>
    /\ h' = Settled
    /\ UNCHANGED <<sessions, invitations, messages, chunks, provider, moods>>

----------------------------------------------------------------------------
(* Invitations *)

\* (mutant) the pending invitation is not looked for
HasPending_Never(sid, inviter, invitee) == FALSE

\* the query for an existing pending invitation finds a row
HasPending(sid, inviter, invitee) ==
    \E i \in 1..Len(invitations) :
        /\ invitations[i].session_id = sid
        /\ invitations[i].inviter_id = inviter
        /\ invitations[i].invitee_id = invitee
        /\ invitations[i].status = "pending"

\* the checks of invite_partner_to_session, in order
InviteCode(u, sid) ==
    IF ~Truthy(PartnerId(u)) THEN 400
    ELSE IF ~OwnsSession(u, sid) THEN 404
    ELSE IF sessions[sid].partner_user_id = PartnerId(u) THEN 400
    ELSE IF HasPending(sid, u, PartnerId(u)) THEN 400
    ELSE 200

NewInvitation(sid, u) ==
    [session_id |-> sid, inviter_id |-> u, invitee_id |-> PartnerId(u),
     status |-> "pending", expires_at |-> now + InvitationTTL,
     responded_at |-> NoTime]

\* POST /sessions/{sid}/invite-partner
Invite(p, u, sid) ==
    /\ Slot(p)
    /\ IF InviteCode(u, sid) # 200
       THEN /\ Answer(p, Request("invite", u, sid), InviteCode(u, sid))
            /\ UNCHANGED invitations
       ELSE /\ Len(invitations) < MaxInvitations
            /\ invitations' = Append(invitations, NewInvitation(sid, u))
            /\ Notify(p, [Request("invite", u, sid) EXCEPT !.out = Len(invitations) + 1],
                      <<PersonalJob(PartnerId(u))>>)
    /\ UNCHANGED <<entries, listOf, lists, sock, ep, epUser, epEnd>>
    /\ UNCHANGED <<now, sessions, messages, chunks, provider, moods>>

\* (mutant) the query does not look at the status
Found_AnyStatus(u, i) == i <= Len(invitations) /\ invitations[i].invitee_id = u

\* (mutant) the query does not look at the invitee
Found_AnyUser(u, i) == i <= Len(invitations) /\ invitations[i].status = "pending"

\* the query of accept / decline finds the row: id, invitee, status pending
Found(u, i) ==
    /\ i <= Len(invitations)
    /\ invitations[i].invitee_id = u
    /\ invitations[i].status = "pending"

\* (mutant) the expiry is not looked at
Expired_Never(inv) == FALSE

\* (mutant) an invitation expires a second lifetime after its expiry
Expired_Late(inv) == inv.expires_at # NoTime /\ now > inv.expires_at + InvitationTTL

\* `invitation.expires_at and datetime.utcnow() > invitation.expires_at`
Expired(inv) == inv.expires_at # NoTime /\ now > inv.expires_at

\* `if session:` then the partner joins
Joined(sid, u) ==
    IF Exists(sid)
    THEN [sessions EXCEPT ![sid] = OnUpdate(@, [@ EXCEPT !.partner_user_id = u,
                                                         !.session_type = "couple_chat"])]
    ELSE sessions

\* (mutant) the acceptance is sent to the inviter and not broadcast
AcceptJobs_InviterOnly(inv) == <<PersonalJob(inv.inviter_id)>>

\* the notifications of an acceptance: partner_event to the inviter, then to
\* every connection of the registry (no sender is named)
AcceptJobs(inv) == <<PersonalJob(inv.inviter_id), BroadcastJob(NoUser)>>

\* the notification of a refusal: ws_event to the inviter
DeclineJobs(inv) == <<PersonalJob(inv.inviter_id)>>

\* `type` of the event a request sends: WSMessage(type="message"),
\* WSInvitationEvent, WSPartnerEvent(type="partner_joined")
EventOf(op) ==
    IF op = "send" THEN "message"
    ELSE IF op = "accept" THEN "partner_joined"
    ELSE IF op \in {"invite", "decline"} THEN "invitation"
    ELSE ""

\* POST /invitations/{i}/accept
Accept(p, u, i) ==
    /\ Slot(p)
    /\ IF ~Found(u, i)
       THEN /\ Answer(p, Request("accept", u, i), 404)
            /\ UNCHANGED <<invitations, sessions>>
       ELSE IF Expired(invitations[i])
       THEN /\ invitations' = [invitations EXCEPT ![i].status = "expired"]
            /\ Answer(p, Request("accept", u, i), 400)
            /\ UNCHANGED sessions
       ELSE /\ sessions' = Joined(invitations[i].session_id, u)
            /\ invitations' = [invitations EXCEPT ![i].status = "accepted",
                                                  ![i].responded_at = now]
            /\ Notify(p, Request("accept", u, i), AcceptJobs(invitations[i]))
    /\ UNCHANGED <<entries, listOf, lists, sock, ep, epUser, epEnd>>
    /\ UNCHANGED <<now, messages, chunks, provider, moods>>

\* POST /invitations/{i}/decline
Decline(p, u, i) ==
    /\ Slot(p)
    /\ IF ~Found(u, i)
       THEN /\ Answer(p, Request("decline", u, i), 404)
            /\ UNCHANGED invitations
       ELSE /\ invitations' = [invitations EXCEPT ![i].status = "declined",
                                                  ![i].responded_at = now]
            /\ Notify(p, Request("decline", u, i), DeclineJobs(invitations[i]))
    /\ UNCHANGED <<entries, listOf, lists, sock, ep, epUser, epEnd>>
    /\ UNCHANGED <<now, sessions, messages, chunks, provider, moods>>

\* beside the requests, one websocket of some user is opened and registered,
\* and the suspended deliveries go on
NextWs ==
    \/ \E u \in Users : WsOpen(1, u)
    \/ WsAccept(1)
    \/ \E p \in HProcs : HDeliver(p)

\* the sessions are created before the clock first advances
NextInv ==
    \/ NextWs
    \/ Tick
    \/ now = 0 /\ \E p \in HProcs, u \in Users : CreateSession(p, u, NoUser, "ai_mediation")
    \/ \E p \in HProcs, u \in Users, sid \in SessionIds : Invite(p, u, sid)
    \/ \E p \in HProcs, u \in Users, i \in InvitationIds : Accept(p, u, i)
    \/ \E p \in HProcs, u \in Users, i \in InvitationIds : Decline(p, u, i)

SpecInv == Init /\ [][NextInv]_vars

----------------------------------------------------------------------------
(* ChatService.send_message and what it calls.  The provider clients are     *)
(* synchronous: the call does not suspend before the router's broadcast.     *)

Providers == {"openai", "gemini"}

\* GeminiProvider.moderate_content: a flagged word occurs in the content
HasFlaggedWord(content) == content = "i hate this"

\* moderation_result["flagged"]: OpenAIProvider answers not flagged when the
\* API call raises, GeminiProvider looks for its words
moderate_content(content, api) ==
    IF provider = "openai" THEN api = "flagged" ELSE HasFlaggedWord(content)

Apology == "I apologize, but I'm having trouble processing your message right now."

\* suggested_actions of the fallback response
FallbackSuggestions ==
    <<"Try rephrasing your message", "Contact a professional counselor">>

\* what _generate_suggested_actions returns from its except clause
GenericSuggestions ==
    <<"Continue the conversation", "Reflect on the advice given",
      "Consider discussing this with your partner">>

\* (mutant) a failure of the second completion leaves no suggestion
generate_suggested_actions_None(gen) ==
    IF gen = "sug_fail" THEN <<>> ELSE <<"suggestion">>

\* AIService._generate_suggested_actions: the lines of a second completion,
\* or the generic suggestions when that completion raises ("sug_fail")
generate_suggested_actions(gen) ==
    IF gen = "sug_fail" THEN GenericSuggestions ELSE <<"suggestion">>

\* (mutant) a failure of the backend leaves an empty reply
generate_mediation_response_NoFallback(gen) ==
    IF gen \in {"ok", "sug_fail"}
    THEN [message |-> "reply", tokens_used |-> ReplyTokens,
          suggested_actions |-> generate_suggested_actions(gen)]
    ELSE [message |-> "", tokens_used |-> NoTokens, suggested_actions |-> <<>>]

\* AIService.generate_mediation_response: the reply of the first completion
\* with the suggestions, or the apology when the backend raised in the first
\* completion or the response could not be built
generate_mediation_response(gen) ==
    IF gen \in {"ok", "sug_fail"}
    THEN [message |-> "reply", tokens_used |-> ReplyTokens,
          suggested_actions |-> generate_suggested_actions(gen)]
    ELSE [message |-> Apology, tokens_used |-> 0,
          suggested_actions |-> FallbackSuggestions]

\* str(e) of the two ValueErrors
NotFound == "Chat session not found or access denied"
Guidelines == "Message content violates community guidelines"

\* (mutant) the verdict of the moderation is not looked at
Refused_IgnoresVerdict(u, sid, flagged) == ~OwnsSession(u, sid)

\* the two `raise ValueError` of send_message, before anything is stored
Refused(u, sid, flagged) == ~OwnsSession(u, sid) \/ flagged

\* (mutant) the reply is stored as a message of the user
AiMessage_RoleUser(sid, r, um) ==
    [session_id |-> sid, user_id |-> NoUser, role |-> "user", content |-> r.message,
     parent_message_id |-> um, tokens_used |-> r.tokens_used]

\* (mutant) the reply does not name the message it answers
AiMessage_NoParent(sid, r, um) ==
    [session_id |-> sid, user_id |-> NoUser, role |-> "ai", content |-> r.message,
     parent_message_id |-> NoId, tokens_used |-> r.tokens_used]

\* (mutant) the reply is stored without its token count
AiMessage_NoTokens(sid, r, um) ==
    [session_id |-> sid, user_id |-> NoUser, role |-> "ai", content |-> r.message,
     parent_message_id |-> um, tokens_used |-> NoTokens]

UserMessage(sid, u, content, parent) ==
    [session_id |-> sid, user_id |-> u, role |-> "user", content |-> content,
     parent_message_id |-> parent, tokens_used |-> NoTokens]

AiMessage(sid, r, um) ==
    [session_id |-> sid, user_id |-> NoUser, role |-> "ai", content |-> r.message,
     parent_message_id |-> um, tokens_used |-> r.tokens_used]

\* (mutant) the vectors are written whatever the index answers
Stored_Always(vec, sid, mid, type) ==
    {[session_id |-> sid, message_id |-> mid, content_type |-> type]}

\* VectorService.store_conversation_context: nothing is stored, and False is
\* returned, when the index or the embedding is not there
Stored(vec, sid, mid, type) ==
    IF vec THEN {[session_id |-> sid, message_id |-> mid, content_type |-> type]} ELSE {}

\* the place of a row the cascade of a session's deletion took out of
\* chat_messages
NoMessage == [session_id |-> NoId, user_id |-> NoUser, role |-> "", content |-> "",
              parent_message_id |-> NoId, tokens_used |-> NoTokens]

\* created_at of the row with id i: the rows are stamped as they are inserted
CreatedAt(i) == i

\* order_by(created_at.asc())
RECURSIVE Ascending(_)
Ascending(S) ==
    IF S = {} THEN <<>>
    ELSE LET m == CHOOSE i \in S : \A j \in S : CreatedAt(i) <= CreatedAt(j)
         IN <<m>> \o Ascending(S \ {m})

\* (mutant) order_by(created_at.desc())
HistoryIds_Desc(sid) ==
    LET a == Ascending({i \in 1..Len(messages) : messages[i].session_id = sid})
    IN [k \in 1..Len(a) |-> a[Len(a) + 1 - k]]

\* the ids of the session's rows as get_chat_history's query orders them
\* (is_deleted is False in every row: nothing sets it)
HistoryIds(sid) ==
    Ascending({i \in 1..Len(messages) : messages[i].session_id = sid})

\* ChatService.get_chat_history: the session's rows in insertion order
History(sid) == SelectSeq(messages, LAMBDA m : m.session_id = sid)

\* .limit(limit).offset(offset)
Page(ids, limit, offset) == SubSeq(ids, offset + 1, Min({Len(ids), offset + limit}))

\* parent_message_id of the requests
ParentArgs == {NoId}

\* the contents posted, each with what the moderation API may do with it
Posts == {<<"hello", "clean">>, <<"hello", "error">>,
          <<"i hate this", "flagged">>, <<"i hate this", "error">>}

\* what the database does with the two commits of send_message
DbArgs == {"ok", "user_commit", "ai_commit"}

\* (mutant) the rollback after a failed commit takes back the user message
Committed_RollsBackAll(db, um, ai) == IF db = "ok" THEN <<um, ai>> ELSE <<>>

\* the rows send_message leaves in chat_messages: the user message is
\* committed before the reply is generated, and the rollback of the except
\* clause undoes what is not committed
Committed(db, um, ai) ==
    IF db = "user_commit" THEN <<>>
    ELSE IF db = "ai_commit" THEN <<um>>
    ELSE <<um, ai>>

\* search_relevant_context(query, session_id) as send_message calls it: the
\* message ids of the session's vectors in the index `cs` that match the query.  The
\* vector of a text equal to the query has score 1 and passes min_score; the
\* texts are those of the rows `msgs`.  Nothing is found when the index or
\* the embedding is not there.
ContextFor(vec, cs, sid, query, msgs) ==
    IF vec
    THEN {c.message_id : c \in {d \in cs : /\ d.session_id = sid
                                           /\ msgs[d.message_id].content = query}}
    ELSE {}

\* limit=10 of the history read, and [-10:] of the turns built from it
HistoryTurns == 10

\* s[-n:]
LastN(s, n) == IF Len(s) <= n THEN s ELSE SubSeq(s, Len(s) - n + 1, Len(s))

TurnOf(m) == [role |-> m.role, content |-> m.content]

\* ChatService._get_conversation_history(db, sid, limit=10): the newest rows
\* of the session in the table `msgs`, oldest first, as role and content
conversation_history(msgs, sid) ==
    LET rows == LastN(SelectSeq(msgs, LAMBDA m : m.session_id = sid), HistoryTurns)
    IN [k \in 1..Len(rows) |-> TurnOf(rows[k])]

\* the system instruction that opens every list of turns
SystemTurn == [role |-> "system", content |-> "prompt"]

\* `messages` of generate_mediation_response: the system instruction, the
\* last ten turns of the history, the current message
MediationTurns(history, message) ==
    <<SystemTurn>> \o LastN(history, HistoryTurns)
                  \o <<[role |-> "user", content |-> message]>>

\* (mutant) the activity is stamped with a time that has passed
ActivityNow_DayBefore == now - TickHours

\* datetime.now(timezone.utc) of `session.last_activity = ...`
ActivityNow == now

\* POST /sessions/{sid}/messages.  `db`: both commits go through, or the
\* commit named raises and the router answers 500.
Send(p, u, sid, content, parent, api, gen, vec, db) ==
    /\ Slot(p)
    /\ IF Refused(u, sid, moderate_content(content, api))
       THEN /\ Answer(p, [Request("send", u, sid) EXCEPT
                            !.detail = IF ~OwnsSession(u, sid) THEN NotFound
                                       ELSE Guidelines], 400)
            /\ UNCHANGED <<sessions, messages, chunks>>
       ELSE LET um == Len(messages) + 1
                r == generate_mediation_response(gen)
                rows == Committed(db, UserMessage(sid, u, content, parent),
                                  AiMessage(sid, r, um))
                relevant_context ==
                    ContextFor(
                        vec, chunks \cup Stored(vec, sid, um, "user_message"), sid,
                        content, Append(messages, UserMessage(sid, u, content, parent)))
                conversation ==
                    conversation_history(
                        Append(messages, UserMessage(sid, u, content, parent)), sid)
            IN /\ um + 1 <= MaxMessages
               /\ messages' = messages \o rows
               /\ IF db = "ok"
                  THEN /\ chunks' = chunks \cup Stored(vec, sid, um, "user_message")
                                           \cup Stored(vec, sid, um + 1, "ai_response")
                       /\ sessions' = [sessions EXCEPT ![sid].last_activity = ActivityNow]
                       /\ Notify(p, [Request("send", u, sid) EXCEPT
                                        !.out = um + 1, !.sug = r.suggested_actions,
                                        !.ctx = relevant_context,
                                        !.turns = MediationTurns(conversation, content)],
                                 <<BroadcastJob(u)>>)
                  ELSE /\ chunks' = IF db = "ai_commit"
                                    THEN chunks \cup Stored(vec, sid, um, "user_message")
                                    ELSE chunks
                       /\ UNCHANGED sessions
                       /\ Answer(p, [Request("send", u, sid) EXCEPT
                                        !.detail = "Failed to send message"], 500)
    /\ UNCHANGED <<entries, listOf, lists, sock, ep, epUser, epEnd>>
    /\ UNCHANGED <<now, invitations, provider, moods>>

\* the request with the database answering
SendMessage(p, u, sid, content, parent, api, gen, vec) ==
    Send(p, u, sid, content, parent, api, gen, vec, "ok")

NextMsg ==
    \/ NextWs
    \/ \E p \in HProcs, u \in Users : CreateSession(p, u, NoUser, "ai_mediation")
    \/ \E p \in HProcs, u \in Users, sid \in SessionIds, post \in Posts,
          parent \in ParentArgs, gen \in {"ok", "fail"}, vec \in BOOLEAN :
          SendMessage(p, u, sid, post[1], parent, post[2], gen, vec)

(* The server started with either provider configured. *)
InitMsg == InitReg /\ InitStore /\ provider \in Providers

SpecMsg == InitMsg /\ [][NextMsg]_vars

----------------------------------------------------------------------------
(* The other requests on a session: history, delete, title, summary.       *)
(* Each checks the session with the filter id == sid, user_id == caller.   *)

\* limit of get_chat_history when the request names none
HistoryLimit == 50

\* limit and offset of the requests
LimitArgs == {1, HistoryLimit}
OffsetArgs == {0, 1}

\* GET /sessions/{sid}/history
GetHistory(p, u, sid, limit, offset) ==
    /\ Slot(p)
    /\ IF ~OwnsSession(u, sid)
       THEN Answer(p, [Request("history", u, sid) EXCEPT !.detail = NotFound], 404)
       ELSE Answer(p, [Request("history", u, sid) EXCEPT
                          !.rows = Page(HistoryIds(sid), limit, offset)], 200)
    /\ UNCHANGED <<entries, listOf, lists, sock, ep, epUser, epEnd>>
    /\ UNCHANGED dbVars

\* VectorService.search_relevant_context: the session's chunks that score
\* min_score or more; [] when the index is not there or the call raises
search_relevant_context(vec, sid, near) ==
    IF vec /\ near THEN {c \in chunks : c.session_id = sid} ELSE {}

\* VectorService.delete_session_context: the index without the session's
\* vectors; as it was (and False returned) when the index is not there or a
\* call to it raises
delete_session_context(vec, sid) ==
    IF vec THEN {c \in chunks : c.session_id # sid} ELSE chunks

\* cascade="all, delete-orphan" of ChatSession.messages
Cascade(sid) ==
    [i \in 1..Len(messages) |->
        IF messages[i].session_id = sid THEN NoMessage ELSE messages[i]]

\* chat_invitations.session_id still names the session
Referenced(sid) == \E i \in 1..Len(invitations) : invitations[i].session_id = sid

\* DELETE /sessions/{sid}.  `fk`: the database enforces foreign keys (the
\* default sqlite database does not) and the commit raises for a session an
\* invitation names; the vectors are deleted before.
DeleteSession(p, u, sid, vec, fk) ==
    /\ Slot(p)
    /\ IF ~OwnsSession(u, sid)
       THEN /\ Answer(p, [Request("delete", u, sid) EXCEPT !.detail = NotFound], 404)
            /\ UNCHANGED <<sessions, messages, chunks>>
       ELSE IF fk /\ Referenced(sid)
       THEN /\ chunks' = delete_session_context(vec, sid)
            /\ Answer(p, [Request("delete", u, sid) EXCEPT
                             !.detail = "Failed to delete chat session"], 500)
            /\ UNCHANGED <<sessions, messages>>
       ELSE /\ chunks' = delete_session_context(vec, sid)
            /\ sessions' = [sessions EXCEPT ![sid] = NoSession]
            /\ messages' = Cascade(sid)
            /\ Answer(p, Request("delete", u, sid), 200)
    /\ UNCHANGED <<entries, listOf, lists, sock, ep, epUser, epEnd>>
    /\ UNCHANGED <<now, invitations, provider, moods>>

\* titles are strings over a blank and a letter
MaxTitle == 2
Chars == {" ", "a"}
TitleArgs == UNION {[1..n -> Chars] : n \in 0..MaxTitle}

\* str.strip()
RECURSIVE LStrip(_)
LStrip(t) == IF t # <<>> /\ Head(t) = " " THEN LStrip(Tail(t)) ELSE t

RECURSIVE RStrip(_)
RStrip(t) ==
    IF t # <<>> /\ t[Len(t)] = " " THEN RStrip(SubSeq(t, 1, Len(t) - 1)) ELSE t

Strip(t) == RStrip(LStrip(t))

\* the except clauses of update_session_title: `except ValueError`, then
\* `except Exception`, which also catches the HTTPException raised in the try
\* block
TitleExcept(exc) ==
    IF exc = "ValueError" THEN [code |-> 404, detail |-> NotFound]
    ELSE [code |-> 500, detail |-> "Failed to update session title"]

\* PUT /sessions/{sid}/title
UpdateTitle(p, u, sid, title) ==
    /\ Slot(p)
    /\ IF Strip(title) = <<>>
       THEN /\ Answer(p, [Request("title", u, sid) EXCEPT
                             !.detail = TitleExcept("HTTPException").detail],
                      TitleExcept("HTTPException").code)
            /\ UNCHANGED sessions
       ELSE IF ~OwnsSession(u, sid)
       THEN /\ Answer(p, [Request("title", u, sid) EXCEPT
                             !.detail = TitleExcept("ValueError").detail],
                      TitleExcept("ValueError").code)
            /\ UNCHANGED sessions
       ELSE /\ sessions' = [sessions EXCEPT
                               ![sid] = OnUpdate(@, [@ EXCEPT !.title = Strip(title)])]
            /\ Answer(p, Request("title", u, sid), 200)
    /\ UNCHANGED <<entries, listOf, lists, sock, ep, epUser, epEnd>>
    /\ UNCHANGED <<now, invitations, messages, chunks, provider, moods>>

\* POST /sessions/{sid}/summary.  `ok`: the assignment to session.metadata
\* went through; no column is written either way.
Summarize(p, u, sid, ok) ==
    /\ Slot(p)
    /\ IF ~OwnsSession(u, sid)
       THEN Answer(p, [Request("summary", u, sid) EXCEPT !.detail = NotFound], 404)
       ELSE IF ok THEN Answer(p, Request("summary", u, sid), 200)
       ELSE Answer(p, [Request("summary", u, sid) EXCEPT
                          !.detail = "Failed to generate summary"], 500)
    /\ UNCHANGED <<entries, listOf, lists, sock, ep, epUser, epEnd>>
    /\ UNCHANGED dbVars

\* what the backend does with a completion: a text, an exception, or a
\* completion whose content is None (AIResponse refuses it: the fallback)
GenArgs == {"ok", "fail", "null"}

\* the contents posted with the verdict of the moderation of the default
\* provider
SessPosts == {<<"hello", "clean">>, <<"i hate this", "flagged">>}

\* the sends: content, verdict, backend, index; for the content that is
\* refused the backend and the index are not called
SessSends ==
    {<<post[1], post[2], gen, vec>> :
        post \in {q \in SessPosts : q[2] = "clean"}, gen \in GenArgs, vec \in BOOLEAN}
    \cup {<<post[1], post[2], "ok", TRUE>> : post \in {q \in SessPosts : q[2] = "flagged"}}

\* the requests on sessions, no websocket open and the clock at rest; there
\* is no invitation, so no foreign key for the database to enforce
NextSess ==
    \/ \E p \in HProcs, u \in Users : CreateSession(p, u, NoUser, "ai_mediation")
    \/ \E p \in HProcs, u \in Users, sid \in SessionIds, s \in SessSends :
          SendMessage(p, u, sid, s[1], NoId, s[2], s[3], s[4])
    \/ \E p \in HProcs, u \in Users, sid \in SessionIds, limit \in LimitArgs,
          offset \in OffsetArgs : GetHistory(p, u, sid, limit, offset)
    \/ \E p \in HProcs, u \in Users, sid \in SessionIds, vec \in BOOLEAN :
          DeleteSession(p, u, sid, vec, FALSE)
    \/ \E p \in HProcs, u \in Users, sid \in SessionIds, title \in TitleArgs :
          UpdateTitle(p, u, sid, title)
    \/ \E p \in HProcs, u \in Users, sid \in SessionIds, ok \in BOOLEAN :
          Summarize(p, u, sid, ok)

SpecSess == Init /\ [][NextSess]_vars

\* a session shared with the partner: invitation, acceptance, and the
\* requests of the two on the session
NextJoin ==
    \/ \E p \in HProcs, u \in Users : CreateSession(p, u, NoUser, "ai_mediation")
    \/ \E p \in HProcs, u \in Users, sid \in SessionIds : Invite(p, u, sid)
    \/ \E p \in HProcs, u \in Users, i \in InvitationIds : Accept(p, u, i)
    \/ \E p \in HProcs, u \in Users, sid \in SessionIds :
          SendMessage(p, u, sid, "hello", NoId, "clean", "ok", TRUE)
    \/ \E p \in HProcs, u \in Users, sid \in SessionIds :
          GetHistory(p, u, sid, HistoryLimit, 0)
    \/ \E p \in HProcs, u \in Users, sid \in SessionIds, fk \in BOOLEAN :
          DeleteSession(p, u, sid, TRUE, fk)

SpecJoin == Init /\ [][NextJoin]_vars

----------------------------------------------------------------------------
(* The embeddings of the providers and the Context Store driven directly   *)
(* through store_conversation_context and delete_session_context.          *)

\* VectorService.dimension, the dimension the index is created with
IndexDimension == 1536

\* length of the vectors of text-embedding-3-small
OpenAIDimension == 1536

\* length of the vectors of models/embedding-001, and of GeminiProvider's
\* fallback vector
GeminiDimension == 768

\* the length of the vectors the configured backend answers with
Dimension(pr) == IF pr = "openai" THEN OpenAIDimension ELSE GeminiDimension

\* [x] * n
Repeat(x, n) == [i \in 1..n |-> x]

\* what the embeddings API may do
EmbedArgs == {"ok", "error"}

\* AIService.get_embeddings over the provider's get_embeddings: the vector of
\* the backend (any vector that is not all zero stands for it); when the API
\* call raises, OpenAIProvider returns [] and GeminiProvider [0.0] * 768
get_embeddings(pr, api) ==
    IF api = "ok" THEN Repeat(1, Dimension(pr))
    ELSE IF pr = "openai" THEN <<>>
    ELSE Repeat(0, GeminiDimension)

\* store_conversation_context gets as far as a successful upsert: the index
\* is there, the embedding is not empty (`if not embedding`), and the index
\* takes the vector (it refuses one of another dimension than its own; the
\* exception is caught and False returned)
Upserts(index, e) == index /\ e # <<>> /\ Len(e) = IndexDimension

\* the vectors held at once when the store is driven directly
MaxChunks == 3

MessageIds == 1..MaxMessages

ContentTypes == {"user_message", "ai_response"}

\* await ai_service.get_embeddings(text), called directly: the list returned
Embed(p, api) ==
    /\ Slot(p)
    /\ Answer(p, [Request("embed", NoUser, NoId) EXCEPT
                     !.rows = get_embeddings(provider, api)], 200)
    /\ UNCHANGED <<entries, listOf, lists, sock, ep, epUser, epEnd>>
    /\ UNCHANGED dbVars

\* str(bool)
PyBool(b) == IF b THEN "True" ELSE "False"

\* await vector_service.store_conversation_context(sid, content, type, ...),
\* called directly: True or False returned
StoreContext(p, sid, mid, type, api, index) ==
    LET ok == Upserts(index, get_embeddings(provider, api)) IN
    /\ Slot(p)
    /\ Cardinality(chunks) < MaxChunks
    /\ chunks' = chunks \cup Stored(ok, sid, mid, type)
    /\ Answer(p, [Request("store", NoUser, sid) EXCEPT !.out = mid,
                                                       !.detail = PyBool(ok)], 200)
    /\ UNCHANGED <<entries, listOf, lists, sock, ep, epUser, epEnd>>
    /\ UNCHANGED <<now, sessions, invitations, messages, provider, moods>>

\* await vector_service.delete_session_context(sid), called directly
DeleteContext(p, sid, index) ==
    /\ Slot(p)
    /\ chunks' = delete_session_context(index, sid)
    /\ Answer(p, [Request("unstore", NoUser, sid) EXCEPT !.detail = PyBool(index)], 200)
    /\ UNCHANGED <<entries, listOf, lists, sock, ep, epUser, epEnd>>
    /\ UNCHANGED <<now, sessions, invitations, messages, provider, moods>>

NextStore ==
    \/ \E p \in HProcs, api \in EmbedArgs : Embed(p, api)
    \/ \E p \in HProcs, sid \in SessionIds, mid \in MessageIds, type \in ContentTypes,
          api \in EmbedArgs, index \in BOOLEAN :
          StoreContext(p, sid, mid, type, api, index)
    \/ \E p \in HProcs, sid \in SessionIds, index \in BOOLEAN : DeleteContext(p, sid, index)

SpecStore == InitMsg /\ [][NextStore]_vars

----------------------------------------------------------------------------
(* Invitations with the websockets of both partners.  The websockets are   *)
(* registered while no delivery is suspended and their peers stay: every   *)
(* send succeeds.                                                          *)

\* no delivery loop is suspended in a send
Quiet == \A t \in Tasks : deliv[t].pc # "sending"

NextNote ==
    \/ \E c \in Conns, u \in Users : WsOpen(c, u)
    \/ \E c \in Conns : Quiet /\ WsAccept(c)
    \/ \E p \in HProcs : HDeliver(p)
    \/ \E p \in HProcs, u \in Users : CreateSession(p, u, NoUser, "ai_mediation")
    \/ \E p \in HProcs, u \in Users, sid \in SessionIds : Invite(p, u, sid)
    \/ \E p \in HProcs, u \in Users, i \in InvitationIds : Accept(p, u, i)
    \/ \E p \in HProcs, u \in Users, i \in InvitationIds : Decline(p, u, i)

SpecNote == Init /\ [][NextNote]_vars

----------------------------------------------------------------------------
(* The send with everything after the moderation allowed to fail: the      *)
(* index, the backend, either commit, and the broadcast, whose send fails  *)
(* on a websocket whose peer went away while the loop was suspended.       *)

\* the sends: content, verdict, backend, index, database; one step fails at a
\* time (of the backend's two completions the first, or the second only), or
\* all of them
PipeSends ==
    {<<"hello", "clean", "ok", TRUE, "ok">>,
     <<"hello", "clean", "fail", TRUE, "ok">>,
     <<"hello", "clean", "sug_fail", TRUE, "ok">>,
     <<"hello", "clean", "ok", FALSE, "ok">>,
     <<"hello", "clean", "ok", TRUE, "user_commit">>,
     <<"hello", "clean", "ok", TRUE, "ai_commit">>,
     <<"hello", "clean", "fail", FALSE, "ai_commit">>,
     <<"i hate this", "flagged", "ok", TRUE, "ok">>}

NextPipe ==
    \/ \E u \in Users : WsOpen(1, u)
    \/ WsAccept(1)
    \/ Break(1)
    \/ WsRecv(1, "other")
    \/ \E p \in HProcs : HDeliver(p)
    \/ \E p \in HProcs, u \in Users : CreateSession(p, u, NoUser, "ai_mediation")
    \/ \E p \in HProcs, u \in Users, sid \in SessionIds, s \in PipeSends :
          Send(p, u, sid, s[1], NoId, s[2], s[3], s[4], s[5])

SpecPipe == Init /\ [][NextPipe]_vars

----------------------------------------------------------------------------
(* Mood check-ins.  The endpoints are coroutines that never await: each    *)
(* runs to its answer in one step.  datetime.now() is the model's clock;   *)
(* the columns created_at and updated_at of a new row come from the base   *)
(* class of the models, which stamps them with that clock at the insert.   *)

MaxMoods == 3       \* mood_checkins rows created over a run
HalfDay == 12       \* the clock of the check-ins advances by this many hours
MaxMoodTime == 72   \* and stops here

MoodIds == 1..MaxMoods

\* request bodies: those of test_mood_save
MoodData ==
    {[mood_level |-> 4, notes |-> "good", context_tags |-> {"work", "personal"}],
     [mood_level |-> 5, notes |-> "amazing",
      context_tags |-> {"work", "personal", "social"}]}

\* datetime.date() and func.date(): the calendar day of a time in hours
DateOf(t) == t \div 24

\* db.delete(mood): the row is gone, its id is not used again
DeletedMood(m) ==
    [user_id |-> NoUser, mood_level |-> 0, notes |-> "", context_tags |-> {},
     created_at |-> NoTime, updated_at |-> NoTime]

existing_mood_None(u, today) == NoId

\* the first row of the user whose created_at falls on `today`, or None
existing_mood(u, today) ==
    LET found == {i \in 1..Len(moods) :
                     /\ moods[i].user_id = u
                     /\ DateOf(moods[i].created_at) = today} IN
    IF found = {} THEN NoId ELSE Min(found)

\* created_at and updated_at of a row inserted now: the stamp of BaseModel
InsertStamp == now

\* POST /mood/
CreateMoodCheckin(p, u, mood_data) ==
    LET today == DateOf(now)
        e == existing_mood(u, today)
        updated == [moods[e] EXCEPT !.mood_level = mood_data.mood_level,
                                    !.notes = mood_data.notes,
                                    !.context_tags = mood_data.context_tags,
                                    !.updated_at = now]
        db_mood == [user_id |-> u, mood_level |-> mood_data.mood_level,
                    notes |-> mood_data.notes,
                    context_tags |-> mood_data.context_tags,
                    created_at |-> InsertStamp, updated_at |-> InsertStamp] IN
    /\ Slot(p)
    /\ IF e # NoId
       THEN /\ moods' = [moods EXCEPT ![e] = updated]
            /\ Answer(p, [Request("mood", u, mood_data.mood_level) EXCEPT
                            !.out = e, !.rows = <<updated>>], 200)
       ELSE /\ Len(moods) < MaxMoods
            /\ moods' = Append(moods, db_mood)
            /\ Answer(p, [Request("mood", u, mood_data.mood_level) EXCEPT
                            !.out = Len(moods) + 1, !.rows = <<db_mood>>], 200)
    /\ UNCHANGED <<entries, listOf, lists, sock, ep, epUser, epEnd>>
    /\ UNCHANGED <<now, sessions, invitations, messages, chunks, provider>>

\* DELETE /mood/{mood_id}
DeleteMoodCheckin(p, u, mood_id) ==
    /\ Slot(p)
    /\ IF mood_id <= Len(moods) /\ moods[mood_id].user_id = u
       THEN /\ moods' = [moods EXCEPT ![mood_id] = DeletedMood(@)]
            /\ Answer(p, [Request("unmood", u, mood_id) EXCEPT
                             !.detail = "Mood check-in deleted successfully"], 200)
       ELSE /\ UNCHANGED moods
            /\ Answer(p, [Request("unmood", u, mood_id) EXCEPT
                             !.detail = "Mood check-in not found"], 404)
    /\ UNCHANGED <<entries, listOf, lists, sock, ep, epUser, epEnd>>
    /\ UNCHANGED <<now, sessions, invitations, messages, chunks, provider>>

\* the set mood_dates of the rows of the user
mood_dates(u) ==
    {DateOf(moods[i].created_at) : i \in {j \in 1..Len(moods) : moods[j].user_id = u}}

SetMax(S) == CHOOSE x \in S : \A y \in S : y <= x

\* sorted(dates, reverse=True)
RECURSIVE SortedDesc(_)
SortedDesc(S) ==
    IF S = {} THEN <<>> ELSE <<SetMax(S)>> \o SortedDesc(S \ {SetMax(S)})

\* sorted(sorted_dates)
RECURSIVE SortedAsc(_)
SortedAsc(S) ==
    IF S = {} THEN <<>> ELSE <<Min(S)>> \o SortedAsc(S \ {Min(S)})

\* the loop "Continue counting consecutive days" of get_mood_streak
RECURSIVE CountLoop(_, _, _, _)
CountLoop(ds, streak, check_date, today) ==
    IF ds = <<>> THEN streak
    ELSE IF streak = 0 /\ Head(ds) = today - 1
         THEN CountLoop(Tail(ds), 1, today - 2, today)
    ELSE IF streak = 0 THEN streak
    ELSE IF Head(ds) = check_date
         THEN CountLoop(Tail(ds), streak + 1, check_date - 1, today)
    ELSE streak

current_streak_TodayOnly(dates, today) ==
    LET sorted_dates == SortedDesc(dates) IN
    IF sorted_dates # <<>> /\ sorted_dates[1] = today
    THEN CountLoop(Tail(sorted_dates), 1, today - 1, today)
    ELSE 0

\* current_streak of get_mood_streak over the set of dates
current_streak(dates, today) ==
    LET sorted_dates == SortedDesc(dates) IN
    IF sorted_dates # <<>> /\ sorted_dates[1] = today
    THEN CountLoop(Tail(sorted_dates), 1, today - 1, today)
    ELSE IF sorted_dates # <<>> /\ sorted_dates[1] = today - 1
    THEN CountLoop(Tail(sorted_dates), 1, today - 2, today)
    ELSE CountLoop(sorted_dates, 0, today, today)

PyMax(a, b) == IF a >= b THEN a ELSE b

\* the loop "Calculate longest streak"; prev_date is NoTime for None
RECURSIVE LongestLoop(_, _, _, _)
LongestLoop(ds, longest, temp, prev_date) ==
    IF ds = <<>> THEN PyMax(longest, temp)
    ELSE IF prev_date = NoTime THEN LongestLoop(Tail(ds), longest, 1, Head(ds))
    ELSE IF Head(ds) = prev_date + 1
         THEN LongestLoop(Tail(ds), longest, temp + 1, Head(ds))
    ELSE LongestLoop(Tail(ds), PyMax(longest, temp), 1, Head(ds))

longest_streak(dates) == LongestLoop(SortedAsc(dates), 0, 0, NoTime)

\* GET /mood/streak: current_streak, longest_streak and last_checkin
GetMoodStreak(p, u) ==
    LET dates == mood_dates(u)
        today == DateOf(now) IN
    /\ Slot(p)
    /\ Answer(p, [Request("streak", u, NoId) EXCEPT
                     !.rows = IF dates = {} THEN <<0, 0>>
                              ELSE <<current_streak(dates, today),
                                     longest_streak(dates)>>,
                     !.out = IF dates = {} THEN NoTime ELSE SortedDesc(dates)[1]],
              200)
    /\ UNCHANGED <<entries, listOf, lists, sock, ep, epUser, epEnd>>
    /\ UNCHANGED dbVars

\* the loop "Count consecutive days" of the test
RECURSIVE TestLoop(_, _, _)
TestLoop(ds, streak, check_date) ==
    IF ds = <<>> THEN streak
    ELSE IF Head(ds) = check_date
         THEN TestLoop(Tail(ds), streak + 1, check_date - 1)
    ELSE streak

\* calculate_test_streak(dates) of test_mood_streak, `today` its free variable
calculate_test_streak(dates, today) ==
    IF dates = {} THEN 0
    ELSE LET sorted_dates == SortedDesc(dates) IN
         IF sorted_dates[1] = today THEN TestLoop(Tail(sorted_dates), 1, today - 1)
         ELSE IF sorted_dates[1] = today - 1
              THEN TestLoop(Tail(sorted_dates), 1, today - 2)
         ELSE 0

\* time passes between two requests
MoodTick ==
    /\ now + HalfDay <= MaxMoodTime
    /\ now' = now + HalfDay
    /\ UNCHANGED <<entries, listOf, lists, sock, ep, epUser, epEnd, deliv>>
    /\ h' = Settled
    /\ UNCHANGED <<sessions, invitations, messages, chunks, provider, moods>>

NextMood ==
    \/ MoodTick
    \/ \E p \in RegProcs, u \in Users, mood_data \in MoodData :
          CreateMoodCheckin(p, u, mood_data)
    \/ \E p \in RegProcs, u \in Users, mood_id \in MoodIds :
          DeleteMoodCheckin(p, u, mood_id)
    \/ \E p \in RegProcs, u \in Users : GetMoodStreak(p, u)

SpecMood == Init /\ [][NextMood]_vars

----------------------------------------------------------------------------
(* Sessions created with the partner the request names, and invitations.   *)

\* ChatSessionCreate.partner_user_id of the requests: None or a user id
PartnerArgs == Users \cup {NoUser}

NextPair ==
    \/ \E p \in HProcs, u \in Users, partner \in PartnerArgs :
          CreateSession(p, u, partner, "ai_mediation")
    \/ \E p \in HProcs, u \in Users, sid \in SessionIds : Invite(p, u, sid)
    \/ \E p \in HProcs, u \in Users, i \in InvitationIds : Accept(p, u, i)
    \/ \E p \in HProcs, u \in Users, i \in InvitationIds : Decline(p, u, i)

SpecPair == Init /\ [][NextPair]_vars

----------------------------------------------------------------------------
(* Exchanges and the other updates of a session while the clock advances.  *)

NextClock ==
    \/ NextWs
    \/ Tick
    \/ \E p \in HProcs, u \in Users : CreateSession(p, u, NoUser, "ai_mediation")
    \/ \E p \in HProcs, u \in Users, sid \in SessionIds :
          SendMessage(p, u, sid, "hello", NoId, "clean", "ok", TRUE)
    \/ \E p \in HProcs, u \in Users, sid \in SessionIds :
          UpdateTitle(p, u, sid, <<"a">>)

SpecClock == Init /\ [][NextClock]_vars

----------------------------------------------------------------------------
(* Sends that name a parent.  The ids the database gives are consecutive,  *)
(* so the caller knows the id its message will get.                        *)

\* parent_message_id of a request whose user message will be row um: none, or
\* a row that will exist when the message is committed, which the foreign
\* key of the column admits whether the database enforces it or not
ParentsFor(um) == {NoId} \cup 1..um

NextThread ==
    \/ \E p \in HProcs, u \in Users : CreateSession(p, u, NoUser, "ai_mediation")
    \/ \E p \in HProcs, u \in Users, sid \in SessionIds,
          parent \in ParentsFor(Len(messages) + 1), gen \in {"ok", "fail"} :
          SendMessage(p, u, sid, "hello", parent, "clean", gen, TRUE)

SpecThread == Init /\ [][NextThread]_vars

----------------------------------------------------------------------------
(* Claims on the connection registry *)

\* the registry after the step
ConnsOfNext(u) == IF listOf'[u] # NoList THEN lists'[listOf'[u]] ELSE <<>>

RegisteredNext(c) == \E u \in WsUsers : InSeq(ConnsOfNext(u), c)

\* the step in which request handler p's delivery loop ends
EndsLoop(p) == deliv[p].pc = "sending" /\ deliv'[p].pc # "sending"

\* what the loop that just ended delivered
LastGot(p) == SeqSet(h'[p].log[Len(h'[p].log)])

\* the send that p's personal loop is suspended in fails, on a connection that
\* is registered for the user along with others
FailsAmongSeveral(p) ==
    /\ deliv[p].pc = "sending" /\ deliv[p].kind = "personal"
    /\ deliv'[p] # deliv[p]
    /\ ~SendOk(deliv[p].cur)
    /\ InSeq(ConnsOf(deliv[p].user), deliv[p].cur)
    /\ Len(ConnsOf(deliv[p].user)) >= 2

\* C5 (as claimed): when send_personal_message goes through the several
\* connections of a user and the send to one of them fails, only the failed
\* connection leaves the registry, the caller sees no error, and when the loop
\* ends every other connection of the user has received the event.
C5_SendToUserReachesSiblings ==
    [][\A p \in HProcs : FailsAmongSeveral(p) =>
         /\ h'[p].resp # 500
         /\ \A u \in Users, c \in Conns :
               (u = deliv[p].user /\ InSeq(ConnsOf(u), c) /\ c # deliv[p].cur) =>
                  /\ InSeq(ConnsOfNext(u), c)
                  /\ EndsLoop(p) => c \in LastGot(p)]_vars

\* a step of p's broadcast loop that finds the registry as the loop left it: no
\* key was added or dropped, and the connection it sent to is still in its list
BroadcastStepNoChurn(p) ==
    /\ deliv[p].pc = "sending" /\ deliv[p].kind = "broadcast"
    /\ deliv'[p] # deliv[p]
    /\ deliv[p].dused = DictLen
    /\ InSeq(lists[deliv[p].L], deliv[p].cur)

\* C6 (as claimed): broadcast_to_session does not raise when a send fails, and
\* when it has gone through the registry every connection of every user other
\* than the excluded one has received the event and no connection of the
\* excluded user has.
C6_BroadcastReachesAllOthers ==
    [][\A p \in HProcs : BroadcastStepNoChurn(p) =>
         /\ h'[p].resp # 500
         /\ EndsLoop(p) =>
            /\ \A u \in WsUsers, c \in Conns :
                  (u # deliv[p].excl /\ InSeq(ConnsOfNext(u), c)) => c \in LastGot(p)
            /\ \A c \in LastGot(p) : epUser[c] # deliv[p].excl]_vars

\* C7 (as claimed): with connections registering and unregistering while a
\* delivery is suspended, no delivery raises (no request handler answers 500
\* because of one), and the registry holds exactly the connections that were
\* registered and neither unregistered nor found broken.
C7_ChurnNeverRaises ==
    /\ \A p \in HProcs : h[p].resp # 500
    /\ \A c \in Conns : Registered(c) => ep[c] \in {"recv", "typing", "pong"}
    /\ \A c \in Conns :
          (ep[c] \in {"recv", "typing", "pong"} /\ sock[c] = "open") => Registered(c)

Ends(c) == ep[c] # "ended" /\ ep'[c] = "ended"

C10_TeardownUnregisters ==
    [][\A c \in Conns :
         /\ ep'[c] = "ended" => ~RegisteredNext(c)
         /\ Ends(c) =>
              \A b \in Conns \ {c} :
                 (Registered(b) /\ ~RegisteredNext(b)) =>
                    (ep[c] = "typing" /\ b = deliv[c].cur /\ ~SendOk(b))]_vars

\* C10 witness: a registered connection's handler has ended on each path while
\* another connection is still registered.
C10_Witness ==
    /\ \E c, b \in Conns :
         /\ epEnd[c] \in {"disconnect", "error"}
         /\ ~Registered(c)
         /\ Registered(b)

----------------------------------------------------------------------------
(* Claims on invitations *)

\* the pending invitations of a (session, inviter, invitee) triple
PendingRows(sid, a, b) ==
    {i \in 1..Len(invitations) :
        /\ invitations[i].session_id = sid
        /\ invitations[i].inviter_id = a
        /\ invitations[i].invitee_id = b
        /\ invitations[i].status = "pending"}

\* C1: when the invitee accepts a pending invitation after its expires_at has
\* elapsed, the invitation becomes expired and the accept is refused; an expired
\* invitation stays expired whatever follows, and no step makes an invitation
\* accepted once its expires_at has elapsed.
C1_AcceptAfterExpiryExpires ==
    [][\A i \in 1..Len(invitations) :
         /\ \A p \in HProcs, u \in Users :
               (/\ invitations[i].invitee_id = u
                /\ invitations[i].status = "pending"
                /\ now > invitations[i].expires_at
                /\ Accept(p, u, i)) =>
                   /\ invitations'[i].status = "expired"
                   /\ h'[p].resp = 400
         /\ invitations[i].status = "expired" => invitations'[i].status = "expired"
         /\ (invitations[i].status # "accepted" /\ invitations'[i].status = "accepted") =>
               now <= invitations[i].expires_at]_vars

\* C1 witness: an accept has just been refused and left its invitation expired,
\* and another invitation was accepted at the very hour it expires.
C1_Witness ==
    \E p \in HProcs, i, j \in 1..Len(invitations) :
        /\ h[p].op = "accept" /\ h[p].arg = i /\ h[p].resp = 400
        /\ invitations[i].status = "expired"
        /\ invitations[j].status = "accepted"
        /\ invitations[j].responded_at = invitations[j].expires_at

\* C2: no triple (session, inviter, invitee) ever has two pending invitations,
\* and an invite request that finds a pending invitation of its triple is
\* refused and adds none, also while another invite request of the triple is
\* still delivering its notification.
C2_OnePendingPerTriple ==
    /\ [](\A sid \in SessionIds, a \in Users, b \in Users :
             Cardinality(PendingRows(sid, a, b)) <= 1)
    /\ [][\A p \in HProcs, u \in Users, sid \in SessionIds :
             (PendingRows(sid, u, PartnerId(u)) # {} /\ Invite(p, u, sid)) =>
                (invitations' = invitations /\ h'[p].resp = 400)]_vars

\* C2 witness: an invite request has just been refused while the request that
\* created the pending invitation of the same triple is suspended in its send,
\* and another triple has a pending invitation of its own.
C2_Witness ==
    \E p, q \in HProcs :
        /\ h[p].op = "invite" /\ h[p].resp = 0
        /\ h[q].op = "invite" /\ h[q].resp = 400
        /\ h[q].who = h[p].who /\ h[q].arg = h[p].arg
        /\ invitations[h[p].out].status = "pending"
        /\ \E j \in 1..Len(invitations) :
              invitations[j].status = "pending" /\ invitations[j].session_id # h[p].arg

\* C15: an accept by the invitee of a pending invitation whose expiry has
\* passed is answered with an error (400), leaves every session as it was
\* (partner id and kind included), and sends no event: no delivery is begun
\* and none has run.
C15_ExpiredAcceptLeavesSession ==
    [][\A p \in HProcs, u \in Users, i \in InvitationIds :
         (/\ Found(u, i)
          /\ invitations[i].expires_at # NoTime
          /\ now > invitations[i].expires_at
          /\ Accept(p, u, i)) =>
             /\ h'[p].resp = 400
             /\ sessions' = sessions
             /\ deliv'[p] = IdleDeliv
             /\ h'[p].jobs = <<>> /\ h'[p].log = <<>>
             /\ lists' = lists]_vars

\* C15 witness: an accept after the expiry has just been refused while the
\* inviter has a websocket registered; the session has no partner.
C15_Witness ==
    \E p \in HProcs :
        /\ h[p].op = "accept" /\ h[p].resp = 400
        /\ h[p].arg <= Len(invitations)
        /\ invitations[h[p].arg].status = "expired"
        /\ ConnsOf(invitations[h[p].arg].inviter_id) # <<>>
        /\ sessions[invitations[h[p].arg].session_id].partner_user_id = NoUser
        /\ sessions[invitations[h[p].arg].session_id].session_type = "ai_mediation"

\* C16: a decline by the invitee of a pending invitation whose expiry has
\* passed does not leave the invitation declined.
C16_DeclineChecksExpiry ==
    [][\A p \in HProcs, u \in Users, i \in InvitationIds :
         (/\ Found(u, i)
          /\ invitations[i].expires_at # NoTime
          /\ now > invitations[i].expires_at
          /\ Decline(p, u, i)) =>
             invitations'[i].status # "declined"]_vars

----------------------------------------------------------------------------
(* Claims on the message pipeline *)

\* C3: a send whose content the moderation flags is refused with a client
\* error and stores nothing: the messages, and with them the history of every
\* session, are what they were before the call.
C3_FlaggedNeverPersisted ==
    [][\A p \in HProcs, u \in Users, sid \in SessionIds :
         (h'[p].op = "send" /\ h'[p].who = u /\ h'[p].arg = sid) =>
         \A post \in Posts :
            (/\ moderate_content(post[1], post[2])
             /\ SendMessage(p, u, sid, post[1], NoId, post[2], "ok", TRUE)) =>
                /\ h'[p].resp = 400
                /\ messages' = messages
                /\ \A x \in SessionIds : History(x)' = History(x)]_vars

\* C3 witness: a send to a session of the caller that already has messages has
\* just been refused.
C3_Witness ==
    \E p \in HProcs :
        /\ h[p].op = "send" /\ h[p].resp = 400
        /\ OwnsSession(h[p].who, h[p].arg)
        /\ Len(History(h[p].arg)) >= 2

\* C4: when the backend fails in a send to a session of the caller with content
\* that is not flagged, send_message returns (the request is in its broadcast
\* or answered 200) with the AI message it stored last: role ai, the apology as
\* its text, tokens_used 0, its parent the user message stored with it.
C4_GenerationFailureFallsBack ==
    [][\A p \in HProcs, u \in Users, sid \in SessionIds :
         (h'[p].op = "send" /\ h'[p].who = u /\ h'[p].arg = sid) =>
         \A post \in Posts, vec \in BOOLEAN :
            (/\ OwnsSession(u, sid)
             /\ ~moderate_content(post[1], post[2])
             /\ SendMessage(p, u, sid, post[1], NoId, post[2], "fail", vec)) =>
                /\ h'[p].resp \in {0, 200}
                /\ Len(messages') = Len(messages) + 2
                /\ h'[p].out = Len(messages')
                /\ messages'[Len(messages')] =
                      [session_id |-> sid, user_id |-> NoUser, role |-> "ai",
                       content |-> Apology, parent_message_id |-> Len(messages) + 1,
                       tokens_used |-> 0]
                /\ Apology # ""
                /\ messages'[Len(messages) + 1].role = "user"]_vars

\* C4 witness: the last message stored is the apology, and the send that
\* stored it has returned.
C4_Witness ==
    \E p \in HProcs :
        /\ h[p].op = "send" /\ h[p].resp \in {0, 200}
        /\ h[p].out = Len(messages) /\ h[p].out # NoId
        /\ messages[h[p].out].content = Apology
        /\ messages[h[p].out].tokens_used = 0

----------------------------------------------------------------------------
(* Claims on the session requests *)

\* C11: after the owner's delete of a session is answered 200, the session is
\* gone, no message and no context chunk of it is left, and a context search
\* for its id on an index that answers finds nothing, whether or not the index
\* answered when the session was deleted.
C11_DeleteRemovesEverything ==
    [][\A p \in HProcs :
         (h'[p].op = "delete" /\ h'[p].resp = 200) =>
         \A u \in Users, sid \in SessionIds, vec \in BOOLEAN, fk \in BOOLEAN :
            DeleteSession(p, u, sid, vec, fk) =>
               /\ ~Exists(sid)'
               /\ History(sid)' = <<>>
               /\ \A c \in chunks' : c.session_id # sid
               /\ search_relevant_context(TRUE, sid, TRUE)' = {}]_vars

\* C12: a history read that succeeds returns messages of the session only, in
\* the order they were appended (an earlier appended message has the smaller
\* id and stands before every later one), and with the default limit and no
\* offset it returns every message of the session.
C12_HistoryInAppendOrder ==
    [][\A p \in HProcs :
         (h'[p].op = "history" /\ h'[p].resp = 200) =>
         \A u \in Users, sid \in SessionIds :
         (h'[p].who = u /\ h'[p].arg = sid) =>
         LET r == h'[p].rows IN
            /\ \A a, b \in 1..Len(r) : a < b => r[a] < r[b]
            /\ \A a \in 1..Len(r) :
                  r[a] \in 1..Len(messages) /\ messages[r[a]].session_id = sid
            /\ GetHistory(p, u, sid, HistoryLimit, 0) =>
                  /\ {r[a] : a \in 1..Len(r)} =
                        {i \in 1..Len(messages) : messages[i].session_id = sid}
                  /\ [a \in 1..Len(r) |-> messages[r[a]]] = History(sid)]_vars

\* C12 witness: a read has returned the four messages of two sends to one
\* session.
C12_Witness ==
    \E p \in HProcs :
        /\ h[p].op = "history" /\ h[p].resp = 200
        /\ Len(h[p].rows) = 4
        /\ messages[h[p].rows[1]].role = "user"

\* C13: when the owner's send to a session without messages completes, the
\* session's history is exactly two messages: the user message with the text
\* sent, then the AI reply, whose content is a text (the backend's or the
\* fallback's, never absent).
C13_FirstExchangeIsUserThenAi ==
    [][\A p \in HProcs :
         (h'[p].op = "send" /\ h'[p].resp \in {0, 200}) =>
         \A u \in Users, sid \in SessionIds, post \in SessPosts, gen \in GenArgs,
            vec \in BOOLEAN :
            (/\ h'[p].who = u /\ h'[p].arg = sid
             /\ History(sid) = <<>>
             /\ SendMessage(p, u, sid, post[1], NoId, post[2], gen, vec)) =>
                /\ Len(History(sid)') = 2
                /\ History(sid)'[1].role = "user"
                /\ History(sid)'[1].content = post[1]
                /\ History(sid)'[1].user_id = u
                /\ History(sid)'[2].role = "ai"
                /\ History(sid)'[2].content \in {"reply", Apology}
                /\ History(sid)'[2].content # NoMessage.content]_vars

\* C13 witness: the one send to a session has completed and its history is a
\* user message followed by an AI message.
C13_Witness ==
    \E p \in HProcs :
        /\ h[p].op = "send" /\ h[p].resp = 200
        /\ OwnsSession(h[p].who, h[p].arg)
        /\ Len(History(h[p].arg)) = 2
        /\ History(h[p].arg)[2].role = "ai"

\* the session requests
SessionOps == {"send", "history", "delete", "title", "summary"}

\* the status the router gives the ValueError of the session lookup
NotFoundCode(op) == IF op = "send" THEN 400 ELSE 404

\* the step is the request op of u on sid, well-formed (a title that is not
\* blank)
Called(p, op, u, sid) ==
    CASE op = "send" ->
           \E post \in SessPosts, gen \in GenArgs, vec \in BOOLEAN :
              SendMessage(p, u, sid, post[1], NoId, post[2], gen, vec)
      [] op = "history" ->
           \E limit \in LimitArgs, offset \in OffsetArgs :
              GetHistory(p, u, sid, limit, offset)
      [] op = "delete" ->
           \E vec \in BOOLEAN, fk \in BOOLEAN : DeleteSession(p, u, sid, vec, fk)
      [] op = "title" ->
           \E title \in TitleArgs : Strip(title) # <<>> /\ UpdateTitle(p, u, sid, title)
      [] op = "summary" ->
           \E ok \in BOOLEAN : Summarize(p, u, sid, ok)

\* u is neither owner nor partner of a session with the id sid, or there is
\* no such session
Stranger(u, sid) ==
    \/ sid > Len(sessions)
    \/ u \notin {sessions[sid].user_id, sessions[sid].partner_user_id}

\* C18: send, history, delete, rename and summarize by a caller who is neither
\* owner nor partner of the session are answered exactly as for an id no
\* session has: with the not-found message (and nothing else in the answer but
\* the status the route gives it), and no session, message, context chunk or
\* invitation changes.
C18_StrangerGetsNotFound ==
    [][\A p \in HProcs :
         LET op == h'[p].op
             u == h'[p].who
             sid == h'[p].arg
         IN (op \in SessionOps /\ Stranger(u, sid)) =>
               \/ /\ h'[p] = [Request(op, u, sid) EXCEPT !.resp = NotFoundCode(op),
                                                         !.detail = NotFound]
                  /\ UNCHANGED <<sessions, messages, chunks, invitations>>
               \/ ~Called(p, op, u, sid)]_vars

\* C18 witness: a request on a session that exists, has messages and belongs
\* to another user has been answered not found.
C18_Witness ==
    \E p \in HProcs :
        /\ h[p].op = "delete" /\ h[p].detail = NotFound
        /\ Exists(h[p].arg)
        /\ sessions[h[p].arg].user_id # h[p].who
        /\ History(h[p].arg) # <<>>

\* C19: the owner's rename whose title is empty or blank is refused as a validation
\* failure: status 400 with the message that says the title cannot be empty,
\* not the generic failure; the session's title is as before.
C19_BlankTitleIsValidationFailure ==
    [][\A p \in HProcs, u \in Users, sid \in SessionIds, title \in TitleArgs :
         (Strip(title) = <<>> /\ OwnsSession(u, sid) /\ UpdateTitle(p, u, sid, title)) =>
             /\ h'[p].resp = 400
             /\ h'[p].detail = "Title cannot be empty"
             /\ sessions' = sessions]_vars

\* C20: with the similarity index unavailable the Context Store's operations
\* answer nothing stored / nothing found / nothing deleted and do not raise:
\* the owner's send of acceptable content completes, stores the user message
\* and the AI reply and returns the reply, with no chunk written; the owner's
\* delete is answered 200 with the chunks as they were.
C20_DegradedIndexDoesNotAbort ==
    [][\A p \in HProcs :
         h'[p].op \in {"send", "delete"} =>
         \A u \in Users, sid \in SessionIds :
            (h'[p].who = u /\ h'[p].arg = sid /\ OwnsSession(u, sid)) =>
               /\ \A gen \in GenArgs :
                     SendMessage(p, u, sid, "hello", NoId, "clean", gen, FALSE) =>
                        /\ h'[p].resp \in {0, 200}
                        /\ messages' = messages \o
                              <<UserMessage(sid, u, "hello", NoId),
                                AiMessage(sid, generate_mediation_response(gen),
                                          Len(messages) + 1)>>
                        /\ h'[p].out = Len(messages) + 2
                        /\ chunks' = chunks
                        /\ search_relevant_context(FALSE, sid, TRUE) = {}
               /\ DeleteSession(p, u, sid, FALSE, FALSE) =>
                        /\ h'[p].resp = 200
                        /\ chunks' = chunks]_vars

\* C20 witness: a send has completed on a session that has its messages and
\* not one chunk in the index.
C20_Witness ==
    \E p \in HProcs :
        /\ h[p].op = "send" /\ h[p].resp = 200
        /\ OwnsSession(h[p].who, h[p].arg)
        /\ Len(History(h[p].arg)) >= 2
        /\ h[p].out = Len(messages)
        /\ \A c \in chunks : c.session_id # h[p].arg

----------------------------------------------------------------------------
(* Claims on a session shared with the partner *)

\* C14: when the invitee accepts a pending invitation that has not expired,
\* the invitation is accepted and the invitation's session has the invitee as
\* its partner and the kind couple_chat: no invitation becomes accepted
\* without its session updated so.
C14_AcceptJoinsSession ==
    [][\A p \in HProcs, u \in Users, i \in InvitationIds :
         (/\ Found(u, i)
          /\ ~Expired(invitations[i])
          /\ Accept(p, u, i)) =>
             /\ invitations'[i].status = "accepted"
             /\ Exists(invitations[i].session_id)'
             /\ sessions'[invitations[i].session_id].partner_user_id = u
             /\ sessions'[invitations[i].session_id].session_type = "couple_chat"]_vars

\* C17: a history read or a send of acceptable content on an existing session
\* succeeds exactly when the caller is the session's owner or its partner.
C17_OwnerAndPartnerMayUse ==
    [][\A p \in HProcs, u \in Users, sid \in SessionIds :
         (/\ Exists(sid)
          /\ \/ GetHistory(p, u, sid, HistoryLimit, 0)
             \/ SendMessage(p, u, sid, "hello", NoId, "clean", "ok", TRUE)) =>
             ((h'[p].resp \in {0, 200}) <=>
                 (u \in {sessions[sid].user_id, sessions[sid].partner_user_id}))]_vars

----------------------------------------------------------------------------
(* Claims on the provider adapter *)

\* C21: whichever backend is configured, what get_embeddings returns when the
\* backend's embeddings call fails is a vector of zeros, not empty, whose
\* length is the backend's dimension, and that dimension is the one the index
\* is created with.
C21_EmbedFailureIsZeroVector ==
    [][\A p \in HProcs :
         Embed(p, "error") =>
            LET e == h'[p].rows IN
            /\ e # <<>>
            /\ \A i \in 1..Len(e) : e[i] = 0
            /\ Len(e) = Dimension(provider)
            /\ Dimension(provider) = IndexDimension]_vars

\* C22: a user message is stored only by a send whose moderation call came
\* back with a verdict: when the moderation call of the OpenAI backend raises,
\* the failure reaches send_message, the send does not complete and no
\* message is stored.
C22_ModerationFailurePropagates ==
    [][\A p \in HProcs, u \in Users, sid \in SessionIds :
         (h'[p].op = "send" /\ h'[p].who = u /\ h'[p].arg = sid) =>
         \A post \in Posts, gen \in {"ok", "fail"}, vec \in BOOLEAN :
            (/\ provider = "openai"
             /\ post[2] = "error"
             /\ SendMessage(p, u, sid, post[1], NoId, post[2], gen, vec)) =>
                /\ h'[p].resp \notin {0, 200}
                /\ messages' = messages]_vars

----------------------------------------------------------------------------
(* Claims on the notifications of the invitation requests *)

\* request p's notifications have all been run with this step
Notified(p) == h'[p] # h[p] /\ h'[p].resp \in {200, 500}

\* the connections request p's deliveries have sent to
GotAll(p) == UNION {SeqSet(h'[p].log[k]) : k \in 1..Len(h'[p].log)}

C24_SenderReceivesReply ==
    [][\A p \in HProcs :
         (h'[p].op = "send" /\ Notified(p) /\ h'[p].resp = 200) =>
            /\ EventOf(h'[p].op) = "message"
            /\ \A c \in Conns :
                  InSeq(ConnsOfNext(h'[p].who), c) => c \in GotAll(p)]_vars

----------------------------------------------------------------------------
(* Claims on the failures of the message pipeline *)

\* C25: a user message that is stored stays as it is in every step, whatever
\* fails in it (the index, the backend, the commit of the AI message, the
\* broadcast); a send of acceptable content whose first commit went through
\* leaves the user message in the session's history whichever later step
\* fails; and when only the storing of the context fails the send returns the
\* AI reply.
C25_UserMessageSurvivesLaterFailures ==
    [][/\ \A i \in 1..Len(messages) :
             messages[i].role = "user" =>
                (i <= Len(messages') /\ messages'[i] = messages[i])
       /\ \A p \in HProcs, u \in Users, sid \in SessionIds :
             (h'[p].op = "send" /\ h'[p].who = u /\ h'[p].arg = sid) =>
             \A s \in PipeSends :
                (/\ OwnsSession(u, sid)
                 /\ s[2] = "clean" /\ s[5] # "user_commit"
                 /\ Send(p, u, sid, s[1], NoId, s[2], s[3], s[4], s[5])) =>
                    /\ Len(messages') > Len(messages)
                    /\ messages'[Len(messages) + 1] = UserMessage(sid, u, s[1], NoId)
                    /\ \E k \in 1..Len(History(sid)') :
                          History(sid)'[k] = UserMessage(sid, u, s[1], NoId)
                    /\ s[5] = "ok" =>
                          /\ h'[p].resp \in {0, 200}
                          /\ h'[p].out = Len(messages) + 2
                          /\ messages'[h'[p].out].role = "ai"
                          /\ messages'[h'[p].out].content \in {"reply", Apology}]_vars

\* C25 witness: a send has been answered 500 because the AI message could not
\* be committed; its user message is the last row, after a complete exchange
\* of the same session of which no context was stored.
C25_Witness ==
    \E p \in HProcs :
        /\ h[p].op = "send" /\ h[p].resp = 500 /\ h[p].out = NoId
        /\ Len(messages) = 3
        /\ messages[3].role = "user" /\ messages[3].session_id = h[p].arg
        /\ messages[2].role = "ai" /\ messages[2].session_id = h[p].arg
        /\ chunks = {}

----------------------------------------------------------------------------
(* Claims on the frames of the real-time channel *)

\* C26: a ping frame on a websocket takes its handler into the send of the
\* pong on that same websocket, and when that send returns the handler is
\* back in receive_text; a frame of an unrecognized type leaves the handler
\* in receive_text; in both cases no delivery to any connection is begun and
\* the websocket stays open and registered.
C26_PingPongUnknownIgnored ==
    [][\A c \in Conns :
         /\ (ep[c] = "recv" /\ sock[c] = "open" /\ WsRecv(c, "ping")) =>
               /\ ep'[c] = "pong"
               /\ deliv' = deliv
               /\ UNCHANGED <<entries, listOf, lists, sock, epEnd>>
         /\ (ep[c] = "pong" /\ SendOk(c) /\ WsPong(c)) =>
               /\ ep'[c] = "recv"
               /\ deliv' = deliv
               /\ UNCHANGED <<entries, listOf, lists, sock, epEnd>>
         /\ (ep[c] = "recv" /\ sock[c] = "open" /\ WsRecv(c, "other")) =>
               /\ ep'[c] = "recv"
               /\ deliv' = deliv
               /\ UNCHANGED <<entries, listOf, lists, sock, epEnd>>
               /\ Registered(c) => RegisteredNext(c)]_vars

\* C26 witness: the handler of a registered, open websocket is sending the
\* pong while another websocket is registered.
C26_Witness ==
    \E c, b \in Conns :
        /\ b # c
        /\ ep[c] = "pong" /\ sock[c] = "open" /\ Registered(c)
        /\ Registered(b) /\ sock[b] = "open"

\* C27: the typing indicator a websocket's handler broadcasts is sent to
\* connections of other users only: no send of that broadcast that succeeds
\* is to a connection registered for the user the frame came from.
C27_TypingNeverEchoed ==
    [][\A c \in Conns :
         (/\ ep[c] = "typing" /\ deliv[c].pc = "sending"
          /\ SendOk(deliv[c].cur)
          /\ WsDeliver(c)) =>
             ~InSeq(ConnsOf(epUser[c]), deliv[c].cur)]_vars

\* C28: when the completion for the suggested actions raises after the reply
\* was generated, the owner's send of acceptable content completes, stores
\* and returns the generated reply (not the apology), and returns the three
\* generic suggestions with it.
C28_SuggestionFailureKeepsReply ==
    [][\A p \in HProcs, u \in Users, sid \in SessionIds :
         (h'[p].op = "send" /\ h'[p].who = u /\ h'[p].arg = sid) =>
         \A vec \in BOOLEAN :
            (/\ OwnsSession(u, sid)
             /\ SendMessage(p, u, sid, "hello", NoId, "clean", "sug_fail", vec)) =>
                /\ h'[p].resp \in {0, 200}
                /\ h'[p].out = Len(messages) + 2
                /\ messages'[h'[p].out] =
                      [session_id |-> sid, user_id |-> NoUser, role |-> "ai",
                       content |-> "reply", parent_message_id |-> Len(messages) + 1,
                       tokens_used |-> ReplyTokens]
                /\ h'[p].sug = GenericSuggestions
                /\ Len(h'[p].sug) = 3
                /\ h'[p].sug # FallbackSuggestions]_vars

\* C28 witness: a send has completed with the generated reply stored and the
\* generic suggestions returned.
C28_Witness ==
    \E p \in HProcs :
        /\ h[p].op = "send" /\ h[p].resp = 200
        /\ h[p].sug = GenericSuggestions
        /\ h[p].out = Len(messages) /\ messages[h[p].out].content = "reply"


----------------------------------------------------------------------------
(* Claims on the mood check-ins *)

\* no user has two rows created on the same calendar day
OneCheckinPerDay ==
    \A i, j \in 1..Len(moods) :
        (/\ moods[i].user_id # NoUser
         /\ moods[i].user_id = moods[j].user_id
         /\ DateOf(moods[i].created_at) = DateOf(moods[j].created_at)) => i = j

\* the handler p has just answered a submission
Submitted(p) == h'[p] # h[p] /\ h'[p].op = "mood" /\ h'[p].resp = 200

\* a submission on a day that has a row of the user writes the mood level,
\* notes and tags of the request into that row, returns it, and leaves the
\* number of rows and every other row as they were
SubmitUpdates ==
    \A p \in HProcs :
        LET e == existing_mood(h'[p].who, DateOf(now)) IN
        (Submitted(p) /\ e # NoId) =>
            /\ Len(moods') = Len(moods)
            /\ h'[p].out = e
            /\ h'[p].rows = <<moods'[e]>>
            /\ \E md \in MoodData :
                  /\ md.mood_level = h'[p].arg
                  /\ moods'[e].mood_level = md.mood_level
                  /\ moods'[e].notes = md.notes
                  /\ moods'[e].context_tags = md.context_tags
            /\ moods'[e].created_at = moods[e].created_at
            /\ \A i \in 1..Len(moods) : i # e => moods'[i] = moods[i]

RECURSIVE RunBack(_, _)
RunBack(dates, d) == IF d \in dates THEN 1 + RunBack(dates \ {d}, d - 1) ELSE 0

\* 0 if the most recent day is neither today nor yesterday, otherwise the
\* run of days that ends with the most recent one
StreakAsDescribed(dates, today) ==
    IF dates = {} \/ SetMax(dates) \notin {today, today - 1} THEN 0
    ELSE RunBack(dates, SetMax(dates))

\* C30: for the set of the days on which the user checked in, the current
\* streak that GET /mood/streak reports equals the reference calculation of
\* the test: 0 if the most recent day is neither today nor yesterday,
\* otherwise the number of consecutive days with a check-in counting back
\* from the most recent day.
C30_StreakEqualsReference ==
    \A p \in HProcs :
        (h[p].op = "streak" /\ h[p].resp = 200) =>
            LET dates == mood_dates(h[p].who)
                today == DateOf(now) IN
            /\ h[p].rows[1] = calculate_test_streak(dates, today)
            /\ h[p].rows[1] = StreakAsDescribed(dates, today)

\* a streak of two days is reported to a user who has not checked in today:
\* the most recent day is yesterday
C30_Witness ==
    \E p \in HProcs :
        /\ h[p].op = "streak" /\ h[p].resp = 200
        /\ h[p].rows[1] = 2
        /\ h[p].out = DateOf(now) - 1
        /\ mood_dates(h[p].who) = {DateOf(now) - 1, DateOf(now) - 2}


----------------------------------------------------------------------------
(* Claims on the order of the steps of an exchange *)

\* C31: the context search of an exchange runs before the new message is
\* stored as a vector, so the context retrieved for an exchange never holds
\* the message that is being answered.
C31_ContextExcludesNewMessage ==
    \A p \in HProcs :
        (h[p].op = "send" /\ h[p].out # NoId) => (h[p].out - 1) \notin h[p].ctx


----------------------------------------------------------------------------
(* Claims on the partner of a session *)

\* the accepted invitations to the session sid whose invitee is u
AcceptedFor(sid, u) ==
    {i \in 1..Len(invitations) : /\ invitations[i].session_id = sid
                                 /\ invitations[i].invitee_id = u
                                 /\ invitations[i].status = "accepted"}

\* C32: a session whose partner id is set has exactly one accepted invitation
\* to that session whose invitee is the partner; no request, the creation of
\* a session with a partner id included, sets a partner without one.
C32_PartnerHoldsAcceptedInvitation ==
    \A sid \in 1..Len(sessions) :
        sessions[sid].partner_user_id # NoUser =>
            Cardinality(AcceptedFor(sid, sessions[sid].partner_user_id)) = 1


----------------------------------------------------------------------------
(* Claims on the exchanges of a session *)

\* the rows of request p's exchange: the user message and, right after it,
\* the reply that names it as parent, both in the request's session
OwnRows(p) ==
    LET ai == h'[p].out
        um == ai - 1 IN
    /\ ai = Len(messages')
    /\ messages'[um].role = "user"
    /\ messages'[um].user_id = h'[p].who
    /\ messages'[um].session_id = h'[p].arg
    /\ messages'[ai].role = "ai"
    /\ messages'[ai].session_id = h'[p].arg
    /\ messages'[ai].parent_message_id = um

\* C33: when sends to one session overlap, every exchange still persists its
\* user message before its own AI reply, the reply's parent is that user
\* message, and the exchange adds exactly one user message and one AI message
\* to the history, whatever the other request has written.
C33_ExchangeWritesStayOrdered ==
    [][messages' # messages =>
          /\ Len(messages') = Len(messages) + 2
          /\ SubSeq(messages', 1, Len(messages)) = messages
          /\ \E p \in HProcs :
                /\ h'[p].op = "send" /\ h'[p].out = Len(messages) + 2
                /\ OwnRows(p)]_vars

\* two sends to one session are in flight at once: the first is suspended in
\* its broadcast when the second writes its rows, and each reply names its
\* own user message
C33_Witness ==
    \E p, q \in HProcs :
        /\ p # q
        /\ h[p].op = "send" /\ h[p].resp = 0
        /\ h[q].op = "send" /\ h[q].arg = h[p].arg
        /\ h[p].out = 2 /\ h[q].out = 4
        /\ Len(messages) = 4
        /\ messages[2].parent_message_id = 1
        /\ messages[4].parent_message_id = 3


\* the step is the exchange of request p: its rows are the last two
Exchanged(p) ==
    /\ messages' # messages
    /\ h'[p].op = "send"
    /\ h'[p].out = Len(messages')

C35_AiRowsHaveTokensNoAuthor ==
    \A i \in 1..Len(messages) :
        /\ messages[i].role = "ai" =>
              messages[i].user_id = NoUser /\ messages[i].tokens_used # NoTokens
        /\ messages[i].role = "user" => messages[i].user_id # NoUser

\* the table holds a user message, a generated reply with the count the
\* backend reported, and a fallback reply
C35_Witness ==
    \E i, j, k \in 1..Len(messages) :
        /\ messages[i].role = "user" /\ messages[i].user_id \in Users
        /\ messages[j].role = "ai" /\ messages[j].tokens_used = ReplyTokens
        /\ messages[k].role = "ai" /\ messages[k].content = Apology
        /\ messages[k].tokens_used = 0


----------------------------------------------------------------------------
(* Claims on the threads of messages *)

\* the row reached from row i by following parent_message_id n times, or
\* NoId where the chain ends
RECURSIVE AncestorAt(_, _)
AncestorAt(i, n) ==
    IF n = 0 THEN i
    ELSE LET a == AncestorAt(i, n - 1) IN
         IF a \in 1..Len(messages) THEN messages[a].parent_message_id ELSE NoId

\* C36: after any sequence of sends with parent ids chosen by the callers, the
\* parent relation of the persisted messages has no cycle: no message is its
\* own parent or an ancestor of itself.
C36_ParentsAcyclic ==
    \A i \in 1..Len(messages) : \A n \in 1..Len(messages) : AncestorAt(i, n) # i


\* the turns of the session's rows before row um
PriorHistory(sid, um) ==
    conversation_history(SubSeq(messages, 1, um - 1), sid)

\* C37: the list of turns handed to the generation backend for an exchange is
\* the fixed system instruction, then the history before the exchange, then
\* the new message: the new user message occurs in it exactly once.
C37_TurnsAreSystemHistoryMessage ==
    \A p \in HProcs :
        (h[p].op = "send" /\ h[p].out # NoId) =>
            LET um == h[p].out - 1 IN
            h[p].turns = <<SystemTurn>> \o PriorHistory(h[p].arg, um)
                                        \o <<TurnOf(messages[um])>>


----------------------------------------------------------------------------
(* Claims on the entries of the registry *)

\* C38: after any sequence of registrations, unregistrations and deliveries,
\* failed ones included, the registry holds no user whose list of connections
\* is empty: a user id is a key exactly when the user has a connection in it.
C38_NoEmptyUserEntry ==
    \A u \in WsUsers : HasKey(u) <=> ConnsOf(u) # <<>>


----------------------------------------------------------------------------
(* Claims on who may answer an invitation, and when *)

\* C39: accepted, declined and expired are terminal: once an invitation is
\* not pending, no accept, decline or invite request of any user changes its
\* status or its responded-at time.
C39_AnsweredInvitationIsFinal ==
    [][\A i \in 1..Len(invitations) :
          invitations[i].status # "pending" =>
             /\ invitations'[i].status = invitations[i].status
             /\ invitations'[i].responded_at = invitations[i].responded_at]_vars

\* the invitee's refusal of an invitation they had accepted is answered with
\* not found, and the invitation is still accepted
C39_Witness ==
    \E p \in HProcs :
        /\ h[p].op = "decline" /\ h[p].resp = 404
        /\ h[p].arg <= Len(invitations)
        /\ invitations[h[p].arg].invitee_id = h[p].who
        /\ invitations[h[p].arg].status = "accepted"
        /\ invitations[h[p].arg].responded_at # NoTime


\* request p has just been answered: an accept or a decline of an existing
\* invitation by a user who is not its invitee
AnsweredStranger(p) ==
    /\ h'[p] # h[p]
    /\ h'[p].op \in {"accept", "decline"}
    /\ h'[p].arg <= Len(invitations)
    /\ h'[p].who # invitations[h'[p].arg].invitee_id

\* C40: only the invitee can accept or decline an invitation: the attempt of
\* any other user, the inviter included, is answered with not found and
\* leaves the invitation's status and the session's partner and type as they
\* were.
C40_OnlyInviteeAnswers ==
    [][\A p \in HProcs :
          AnsweredStranger(p) =>
             /\ h'[p].resp = 404
             /\ invitations' = invitations
             /\ sessions' = sessions]_vars

\* the inviter tried to accept their own pending invitation: not found, the
\* invitation is still pending and the session has no partner
C40_Witness ==
    \E p \in HProcs :
        /\ h[p].op = "accept" /\ h[p].resp = 404
        /\ h[p].arg <= Len(invitations)
        /\ invitations[h[p].arg].inviter_id = h[p].who
        /\ invitations[h[p].arg].invitee_id # h[p].who
        /\ invitations[h[p].arg].status = "pending"
        /\ sessions[invitations[h[p].arg].session_id].partner_user_id = NoUser
        /\ sessions[invitations[h[p].arg].session_id].session_type = "ai_mediation"

====
